---- MODULE Spec2Model ----
(***************************************************************************)
(* A model of prview's shared change-notification service                  *)
(* (internal/watcher/watcher.go): the Manager's directory map, the         *)
(* watchEntry objects with their subscriber maps, grace (stopTimer) and    *)
(* debounce timers, and the goroutines that act on them.                   *)
(*                                                                         *)
(* Atomicity: every critical section of Manager.mu or watchEntry.mu is one *)
(* action.  Subscribe and unsubscribe release Manager.mu before they take  *)
(* the entry's lock, and removeEntry closes the watcher after it released  *)
(* Manager.mu, so each of them is two actions and other goroutines may run *)
(* in between.  A time.AfterFunc timer that fires starts its callback in a *)
(* goroutine of its own; Stop() on a timer that has fired does not prevent *)
(* the callback.  The callback of the debounce timer is one entry.mu       *)
(* critical section and run() never reads the result of Stop(), so the     *)
(* debounce timer's firing and its callback are one action.                *)
(*                                                                         *)
(* Two more parts of the program follow the watcher and share no state     *)
(* with it: the /ws handler of the server package with its reader          *)
(* goroutine (SpecHub, SpecHubFair), and git.Parse, which is run line by   *)
(* line on every input up to MaxLines lines (SpecParse).                   *)
(* The ignore rules, the walk of addRecursive and run()'s handling of      *)
(* events are modelled on one directory tree (SpecWalk, SpecWalkFair), and *)
(* the mutexes of the Manager and its entries once more with every Lock()  *)
(* and Unlock() a step of its own (SpecLock, SpecLockFair).                *)
(***************************************************************************)
EXTENDS Integers, FiniteSets, Sequences, TLC

\* ---------------------------------------------------------------- bounds
NumDirs == 2          \* directories callers may watch
NumCallers == 2       \* concurrent callers of Subscribe (connections)
MaxEntries == 2       \* watchEntry objects (fsnotify watchers) ever allocated
MaxSubs == 2          \* subscriber ids ever handed out by one entry
MaxBurst == 2         \* events coalesced into one armed debounce timer
NumConns == 1         \* WebSocket connections served by the /ws handler
MaxMsgs == 1          \* well-formed messages a client sends on one connection
MaxRefresh == 2       \* refresh messages queued or written on one connection
MaxLines == 5         \* lines of the text given to Parse
MaxDirs == 2          \* directories under the root when Subscribe is called
MaxChanges == 2       \* changes of the file system after that
MaxFaults == 1        \* failed queries and failed registrations
MaxCalls == 2         \* calls of Subscribe where every Lock() is a step
MaxCallbacks == 1     \* debounce callbacks of one entry that wait for its mutex

\* ------------------------------------------------------- program constants
ChanCap == 1          \* make(chan struct{}, 1)
ReadErrCap == 1       \* make(chan error, 1)

Dirs == 1..NumDirs
Callers == 1..NumCallers
EntryIds == 1..MaxEntries
SubIds == 0..(MaxSubs - 1)
NoEntry == 0          \* a nil *watchEntry / a key missing from m.entries
NoDir == 0
NoSub == -1
Conns == 1..NumConns

VARIABLES
    entries,      \* Manager.entries: dir -> entry (NoEntry when the key is missing)
    nAlloc,       \* number of watchEntry objects allocated so far
    edir,         \* watchEntry.dir
    subs,         \* watchEntry.subs: the keys of the map
    sink,         \* the buffered channel of each subscriber id: signals queued
    nextID,       \* watchEntry.nextID
    stopTimer,    \* watchEntry.stopTimer: "nil", or the state of the timer it points to
    removePending,\* per dir: fired grace callbacks that have not yet run removeEntry
    toClose,      \* entries a removeEntry goroutine deleted and is about to close
    watch,        \* watchEntry.w: "none" (not allocated), "open", "closed"
    timers,       \* the debounce timers run() armed that neither fired nor were stopped
    burst,        \* qualifying events since the entry's last debounce callback
    pc,           \* per caller: position in Subscribe / unsubscribe
    cdir,         \* per caller: the dir argument
    centry,       \* per caller: the local variable entry
    cid,          \* per caller: the subscription's id (captured by the release func)
    reg,          \* per caller: the entry the subscription was registered in
    last,         \* the effect of the step just taken, for the steps claims are about
    ws,           \* per connection: the state of its /ws handler and reader goroutine
    parser,       \* one call of git.Parse: its input and its local variables
    tree,         \* one watched directory tree: the disk, the OS watch, run()'s loop
    lk            \* the Manager's and the entries' mutexes and who holds them

vars == <<entries, nAlloc, edir, subs, sink, nextID, stopTimer, removePending,
          toClose, watch, timers, burst,
          pc, cdir, centry, cid, reg, last, ws, parser, tree, lk>>

managerVars == <<entries, nAlloc, edir, removePending, toClose, watch>>
entryVars == <<subs, nextID, stopTimer>>
runVars == <<timers, burst>>
callerVars == <<pc, cdir, centry, cid, reg>>
otherVars == <<ws, parser, tree, lk>>  \* what the actions of Next do not touch

Quiet == [op |-> "none", e |-> NoEntry, dir |-> NoDir, n |-> 0,
          sent |-> {}, dropped |-> {}]

Note(op, e) == [Quiet EXCEPT !.op = op, !.e = e]

Allocated == 1..nAlloc

\* A result returned with counters that are not zero.
ParserOnDirty(t) ==
    [pc |-> "start", raw |-> t, lines |-> <<>>, i |-> 1,
     result |-> [files |-> <<>>, additions |-> 1, deletions |-> 1,
                 rawDiff |-> <<>>],
     current |-> <<>>, currentHunk |-> <<>>,
     fn |-> "Parse", out |-> <<>>, ran |-> TRUE, code |-> 0, err |-> FALSE,
     ret |-> <<>>]

\* The local variables of Parse called with the text t.  result is the
\* DiffResult being built (result := &DiffResult{}); current and currentHunk
\* are pointers.  fn is the function that was called, Parse itself or Diff or
\* DiffInRepo, which run git first: out is what the command wrote, ran and
\* code how it ended, err whether an error is returned, and ret the
\* *DiffResult they return (empty for nil).
ParserOn(t) ==
    [pc |-> "start", raw |-> t, lines |-> <<>>, i |-> 1,
     result |-> [files |-> <<>>, additions |-> 0, deletions |-> 0,
                 rawDiff |-> <<>>],
     current |-> <<>>, currentHunk |-> <<>>,
     fn |-> "Parse", out |-> <<>>, ran |-> TRUE, code |-> 0, err |-> FALSE,
     ret |-> <<>>]

ParserIdle == [ParserOn(<<>>) EXCEPT !.pc = "idle"]

\* No gitIgnored call has been made.
NoQuery == [repoDir |-> <<>>, path |-> <<>>, outcome |-> "none", result |-> FALSE]

\* No directory is watched.  A path is the sequence of its components and a
\* component a sequence of characters.  dir is the watched directory
\* (watchEntry.dir, also the repoDir of every query), disk the directories
\* that exist, watched the paths given to w.Add, todo the directories
\* filepath.WalkDir has still to visit and walkRoot the root of that walk,
\* events the channel w.Events, event the event run() is handling, timer the
\* debounce timer and armedBy the event that started it last (empty or one
\* record), signalBy the event whose timer sent the last signal; query is the last call of
\* gitIgnored, upset whether a query or a registration failed or the disk
\* changed while the event was handled, walked the root of the walk that
\* just ended, nev the number of file system changes and nfault the number
\* of failures so far.  Of the walk in progress or just ended, addFailed are
\* the directories w.Add failed for, unread those filepath.WalkDir could not
\* read, and foul says that a query failed or the disk changed meanwhile.
\* made are the directories whose creation was reported to run(), owed the
\* changes inside them that no signal has followed yet, and paid those one
\* has followed.
TreeIdle ==
    [pc |-> "idle", dir |-> <<>>, disk |-> {}, watched |-> {}, todo |-> <<>>,
     walkRoot |-> <<>>, initial |-> FALSE, events |-> <<>>, event |-> <<>>,
     timer |-> "nil", armedBy |-> <<>>, signalBy |-> <<>>,
     query |-> NoQuery, upset |-> FALSE, walked |-> <<>>, nev |-> 0,
     nfault |-> 0, addFailed |-> {}, unread |-> {}, foul |-> FALSE,
     made |-> {}, owed |-> {}, paid |-> {}]

\* The goroutines that take Manager.mu or a watchEntry.mu: a caller inside
\* Subscribe or its release function, a removeEntry started by the grace
\* timer of a directory, the callback of an entry's debounce timer.
Caller(p) == <<"caller", p>>
Remover(d) == <<"removeEntry", d>>
Callback(e) == <<"callback", e>>
Nobody == <<>>

\* NewManager, with each lock and the goroutine that holds it: mu is
\* Manager.mu and emu[e] the mu of entry e.  ent is Manager.entries, n the
\* number of entries made, open whether the entry's watcher is open, subs,
\* nid and stop the entry's subs, nextID and stopTimer.  Of each caller pc
\* is its position, dir and e its variables dir and entry, id the id of its
\* subscription and nq the number of queries of its walk.  rmWant[d] counts
\* the removeEntry(d) goroutines that wait for Manager.mu and cbWant[e] the
\* debounce callbacks that wait for the entry's mu; closing are the entries
\* removeEntry has still to close and calls counts the calls of Subscribe.
LkIdle ==
    [mu |-> Nobody,
     emu |-> [e \in EntryIds |-> Nobody],
     ent |-> [d \in Dirs |-> NoEntry],
     n |-> 0,
     open |-> [e \in EntryIds |-> FALSE],
     subs |-> [e \in EntryIds |-> {}],
     nid |-> [e \in EntryIds |-> 0],
     stop |-> [e \in EntryIds |-> "nil"],
     edir |-> [e \in EntryIds |-> NoDir],
     pc |-> [p \in Callers |-> "idle"],
     dir |-> [p \in Callers |-> NoDir],
     e |-> [p \in Callers |-> NoEntry],
     id |-> [p \in Callers |-> NoSub],
     nq |-> [p \in Callers |-> 0],
     rmWant |-> [d \in Dirs |-> 0],
     closing |-> {},
     cbWant |-> [e \in EntryIds |-> 0],
     calls |-> 0]

\* A request for /ws that the handler has not begun to serve.
WsStart ==
    [hpc |-> "upgrade",     \* the handler goroutine's position
     rpc |-> "none",        \* the reader goroutine's position
     conn |-> "none",       \* the server's end of the connection
     peer |-> "open",       \* the client's end
     inbox |-> 0,           \* well-formed client messages not yet read
     nread |-> 0,           \* client messages ReadMessage returned
     ctx |-> "none",        \* the context made by context.WithCancel
     refreshCh |-> 0,       \* signals queued in refreshCh
     readErr |-> 0,         \* errors queued in readErr
     sub |-> "none",        \* the watch subscription made by watcher.Watch
     released |-> 0,        \* calls of stopWatch
     writers |-> {},        \* goroutines with a write to conn in progress
     errors |-> 0,          \* WriteJSON calls with a message of type error
     refreshes |-> 0,       \* WriteJSON calls with a message of type refresh
     cause |-> "none"]      \* why the select loop returned

\* NewManager
ManagerInit ==
    /\ entries = [d \in Dirs |-> NoEntry]
    /\ nAlloc = 0
    /\ edir = [e \in EntryIds |-> NoDir]
    /\ subs = [e \in EntryIds |-> {}]
    /\ sink = [e \in EntryIds |-> [i \in SubIds |-> 0]]
    /\ nextID = [e \in EntryIds |-> 0]
    /\ stopTimer = [e \in EntryIds |-> "nil"]
    /\ removePending = [d \in Dirs |-> 0]
    /\ toClose = {}
    /\ watch = [e \in EntryIds |-> "none"]
    /\ timers = [e \in EntryIds |-> 0]
    /\ burst = [e \in EntryIds |-> 0]
    /\ pc = [p \in Callers |-> "idle"]
    /\ cdir = [p \in Callers |-> NoDir]
    /\ centry = [p \in Callers |-> NoEntry]
    /\ cid = [p \in Callers |-> NoSub]
    /\ reg = [p \in Callers |-> NoEntry]
    /\ last = Quiet

\* No connection has been accepted and Parse has not been called.
Init ==
    /\ ManagerInit
    /\ ws = [c \in Conns |-> WsStart]
    /\ parser = ParserIdle
    /\ tree = TreeIdle
    /\ lk = LkIdle

\* ------------------------------------------------------------ Subscribe

\* Subscribe, the Manager.mu critical section: look the entry up; when it is
\* missing allocate the watcher (which may fail), build the entry, insert it
\* and start its run() goroutine.
SubscribeFound(p, d) ==
    /\ pc[p] = "idle"
    /\ entries[d] # NoEntry
    /\ pc' = [pc EXCEPT ![p] = "Subscribe_entry"]
    /\ cdir' = [cdir EXCEPT ![p] = d]
    /\ centry' = [centry EXCEPT ![p] = entries[d]]
    /\ last' = Quiet
    /\ UNCHANGED <<managerVars, entryVars, runVars, sink, cid, reg>>
    /\ UNCHANGED otherVars

SubscribeCreate(p, d) ==
    /\ pc[p] = "idle"
    /\ entries[d] = NoEntry
    /\ nAlloc < MaxEntries
    /\ LET e == nAlloc + 1 IN
        /\ nAlloc' = e
        /\ edir' = [edir EXCEPT ![e] = d]
        /\ watch' = [watch EXCEPT ![e] = "open"]
        /\ entries' = [entries EXCEPT ![d] = e]
        /\ centry' = [centry EXCEPT ![p] = e]
        /\ last' = Quiet
    /\ pc' = [pc EXCEPT ![p] = "Subscribe_entry"]
    /\ cdir' = [cdir EXCEPT ![p] = d]
    /\ UNCHANGED <<entryVars, runVars, sink, removePending, toClose, cid, reg>>
    /\ UNCHANGED otherVars

\* A failed allocation that leaves a half-built entry in m.entries.
SubscribeFailPartial(p, d) ==
    /\ pc[p] = "idle"
    /\ entries[d] = NoEntry
    /\ nAlloc < MaxEntries
    /\ nAlloc' = nAlloc + 1
    /\ edir' = [edir EXCEPT ![nAlloc + 1] = d]
    /\ entries' = [entries EXCEPT ![d] = nAlloc + 1]
    /\ last' = [Note("fail", NoEntry) EXCEPT !.dir = d]
    /\ UNCHANGED <<removePending, toClose, watch, entryVars, runVars,
                   callerVars, sink>>
    /\ UNCHANGED otherVars

\* fsnotify.NewWatcher() failed: return nil, nil, err.
SubscribeFail(p, d) ==
    /\ pc[p] = "idle"
    /\ entries[d] = NoEntry
    /\ last' = [Note("fail", NoEntry) EXCEPT !.dir = d]
    /\ UNCHANGED <<managerVars, entryVars, runVars, callerVars, sink>>
    /\ UNCHANGED otherVars

\* Subscribe, the entry.mu critical section: cancel a pending close, take the
\* next id, make the channel and register it; then return.
SubscribeRegister(p) ==
    /\ pc[p] = "Subscribe_entry"
    /\ LET e == centry[p]
           id == nextID[e] IN
        /\ id < MaxSubs
        /\ stopTimer' = [stopTimer EXCEPT ![e] = "nil"]
        /\ nextID' = [nextID EXCEPT ![e] = id + 1]
        /\ subs' = [subs EXCEPT ![e] = @ \cup {id}]
        /\ sink' = [sink EXCEPT ![e][id] = 0]
        /\ cid' = [cid EXCEPT ![p] = id]
        /\ reg' = [reg EXCEPT ![p] = e]
        /\ last' = Quiet
    /\ pc' = [pc EXCEPT ![p] = "subscribed"]
    /\ centry' = [centry EXCEPT ![p] = NoEntry]
    /\ UNCHANGED <<managerVars, runVars, cdir>>
    /\ UNCHANGED otherVars

\* ---------------------------------------------------------- unsubscribe

\* The release function: unsubscribe(dir, id), the Manager.mu critical
\* section and the early return when dir has no entry.
UnsubscribeMissing(p) ==
    /\ pc[p] = "subscribed"
    /\ entries[cdir[p]] = NoEntry
    /\ pc' = [pc EXCEPT ![p] = "idle"]
    /\ cdir' = [cdir EXCEPT ![p] = NoDir]
    /\ cid' = [cid EXCEPT ![p] = NoSub]
    /\ reg' = [reg EXCEPT ![p] = NoEntry]
    /\ last' = Quiet
    /\ UNCHANGED <<managerVars, entryVars, runVars, sink, centry>>
    /\ UNCHANGED otherVars

UnsubscribeFound(p) ==
    /\ pc[p] = "subscribed"
    /\ entries[cdir[p]] # NoEntry
    /\ pc' = [pc EXCEPT ![p] = "unsubscribe_entry"]
    /\ centry' = [centry EXCEPT ![p] = entries[cdir[p]]]
    /\ last' = Quiet
    /\ UNCHANGED <<managerVars, entryVars, runVars, sink, cdir, cid, reg>>
    /\ UNCHANGED otherVars

\* A grace timer armed by every release, whether or not a subscriber is left.
armStopTimerAlways(left, t) == IF t = "nil" THEN "armed" ELSE t

\* if len(entry.subs) == 0 && entry.stopTimer == nil { entry.stopTimer =
\* time.AfterFunc(gracePeriod, ...) }: the value of stopTimer after the delete
\* left the ids in left.
armStopTimer(left, t) == IF left = {} /\ t = "nil" THEN "armed" ELSE t

\* unsubscribe, the entry.mu critical section: delete the id and arm the
\* grace timer when no subscriber is left and none is armed.  When the release
\* returns and the subscriber's channel is in no entry's map any more, nothing
\* refers to the channel: it is garbage and its content is forgotten.
UnsubscribeDelete(p) ==
    /\ pc[p] = "unsubscribe_entry"
    /\ LET e == centry[p]
           left == subs[e] \ {cid[p]} IN
        /\ subs' = [subs EXCEPT ![e] = left]
        /\ stopTimer' = [stopTimer EXCEPT ![e] = armStopTimer(left, @)]
    /\ pc' = [pc EXCEPT ![p] = "idle"]
    /\ cdir' = [cdir EXCEPT ![p] = NoDir]
    /\ centry' = [centry EXCEPT ![p] = NoEntry]
    /\ cid' = [cid EXCEPT ![p] = NoSub]
    /\ reg' = [reg EXCEPT ![p] = NoEntry]
    /\ sink' = IF cid[p] \in subs'[reg[p]]
               THEN sink
               ELSE [sink EXCEPT ![reg[p]][cid[p]] = 0]
    /\ last' = Quiet
    /\ UNCHANGED <<managerVars, runVars, nextID>>
    /\ UNCHANGED otherVars

\* The subscriber receives from its channel.
Receive(p) ==
    /\ pc[p] = "subscribed"
    /\ sink[reg[p]][cid[p]] > 0
    /\ sink' = [sink EXCEPT ![reg[p]][cid[p]] = @ - 1]
    /\ last' = Quiet
    /\ UNCHANGED <<managerVars, entryVars, runVars, callerVars>>
    /\ UNCHANGED otherVars

\* ---------------------------------------------------------- removeEntry

\* gracePeriod elapsed on an armed stopTimer: the runtime starts the
\* callback func() { m.removeEntry(dir) } in its own goroutine.
GraceFire(e) ==
    /\ stopTimer[e] = "armed"
    /\ stopTimer' = [stopTimer EXCEPT ![e] = "fired"]
    /\ removePending' = [removePending EXCEPT ![edir[e]] = @ + 1]
    /\ last' = Quiet
    /\ UNCHANGED <<entries, nAlloc, edir, toClose, watch, subs, nextID, sink,
                   runVars, callerVars>>
    /\ UNCHANGED otherVars

\* removeEntry, the Manager.mu critical section.
RemoveEntryDelete(d) ==
    /\ removePending[d] > 0
    /\ removePending' = [removePending EXCEPT ![d] = @ - 1]
    /\ IF entries[d] # NoEntry
       THEN /\ entries' = [entries EXCEPT ![d] = NoEntry]
            /\ toClose' = toClose \cup {entries[d]}
            /\ last' = Quiet
       ELSE /\ UNCHANGED <<entries, toClose>>
            /\ last' = Quiet
    /\ UNCHANGED <<nAlloc, edir, watch, entryVars, sink, runVars, callerVars>>
    /\ UNCHANGED otherVars

\* A removeEntry that drops the entry without closing its watcher.
RemoveEntryNoClose(e) ==
    /\ e \in toClose
    /\ toClose' = toClose \ {e}
    /\ last' = Quiet
    /\ UNCHANGED <<entries, nAlloc, edir, removePending, watch, entryVars, sink,
                   runVars, callerVars>>
    /\ UNCHANGED otherVars

\* removeEntry after the unlock: entry.close(), closeOnce.Do(w.Close).
RemoveEntryClose(e) ==
    /\ e \in toClose
    /\ toClose' = toClose \ {e}
    /\ watch' = [watch EXCEPT ![e] = "closed"]
    /\ last' = Quiet
    /\ UNCHANGED <<entries, nAlloc, edir, removePending, entryVars, sink,
                   runVars, callerVars>>
    /\ UNCHANGED otherVars

\* ------------------------------------------------------------------ run

\* A send that does not look whether the channel is full.
SendUnchecked(n) == n + 1

\* A non-blocking send on a channel holding n signals:
\* select { case ch <- struct{}{}: default: }.
Send(n) == IF n < ChanCap THEN n + 1 ELSE n

\* The previous timer is left armed when the next one is armed.
timerStopMissing(k) == k

\* if timer != nil { timer.Stop() }: the timer run() armed last is cancelled
\* unless it has fired, so of k armed timers none stays armed.
timerStop(k) == 0

\* run() receives an event from w.Events.  An event on an ignored path is
\* dropped (continue); a qualifying event stops the timer armed by the
\* previous event and arms a new one with time.AfterFunc.
RunEvent(e, qualifies) ==
    /\ watch[e] = "open"
    /\ IF qualifies
       THEN /\ burst[e] < MaxBurst
            /\ timers' = [timers EXCEPT ![e] = timerStop(@) + 1]
            /\ burst' = [burst EXCEPT ![e] = @ + 1]
       ELSE UNCHANGED runVars
    /\ last' = Quiet
    /\ UNCHANGED <<managerVars, entryVars, sink, callerVars>>
    /\ UNCHANGED otherVars

\* The debounce window of an armed timer elapsed and its callback runs its
\* entry.mu critical section: one non-blocking send to every channel in
\* e.subs.
DebounceFire(e) ==
    /\ timers[e] > 0
    /\ timers' = [timers EXCEPT ![e] = @ - 1]
    /\ burst' = [burst EXCEPT ![e] = 0]
    /\ sink' = [sink EXCEPT ![e] =
                   [id \in SubIds |-> IF id \in subs[e] THEN Send(@[id]) ELSE @[id]]]
    /\ last' = [op |-> "deliver", e |-> e, dir |-> NoDir, n |-> burst[e],
                sent |-> {id \in subs[e] : sink'[e][id] > sink[e][id]},
                dropped |-> {id \in subs[e] : sink'[e][id] = sink[e][id]}]
    /\ UNCHANGED <<managerVars, entryVars, callerVars>>
    /\ UNCHANGED otherVars

Next ==
    \/ \E p \in Callers, d \in Dirs : SubscribeFound(p, d)
    \/ \E p \in Callers, d \in Dirs : SubscribeCreate(p, d)
    \/ \E p \in Callers, d \in Dirs : SubscribeFail(p, d)
    \/ \E p \in Callers : SubscribeRegister(p)
    \/ \E p \in Callers : UnsubscribeMissing(p)
    \/ \E p \in Callers : UnsubscribeFound(p)
    \/ \E p \in Callers : UnsubscribeDelete(p)
    \/ \E p \in Callers : Receive(p)
    \/ \E e \in EntryIds : GraceFire(e)
    \/ \E d \in Dirs : RemoveEntryDelete(d)
    \/ \E e \in EntryIds : RemoveEntryClose(e)
    \/ \E e \in EntryIds, q \in BOOLEAN : RunEvent(e, q)
    \/ \E e \in EntryIds : DebounceFire(e)

Spec == Init /\ [][Next]_vars

\* =================================================== the /ws handler
\* The handler of GET /ws: one handler goroutine per connection, which
\* starts one reader goroutine.  The connection's fields are in ws[c].

watcherVars == <<managerVars, entryVars, sink, runVars, callerVars, last>>

\* conn, err := upgrader.Upgrade(w, r, nil); if err != nil { return }
HubUpgrade(c, ok) ==
    /\ ws[c].hpc = "upgrade"
    /\ ws' = [ws EXCEPT ![c] = IF ok
                  THEN [@ EXCEPT !.hpc = "resolve", !.conn = "open"]
                  ELSE [@ EXCEPT !.hpc = "done"]]
    /\ UNCHANGED <<watcherVars, parser, tree, lk>>

\* watchDir, ok := resolveWatchDir(cfg, r); on success
\* ctx, cancel := context.WithCancel(r.Context()); defer cancel() and
\* refreshCh := make(chan struct{}, 1).
HubResolve(c, ok) ==
    /\ ws[c].hpc = "resolve"
    /\ ws' = [ws EXCEPT ![c] = IF ok
                  THEN [@ EXCEPT !.hpc = "watch", !.ctx = "live"]
                  ELSE [@ EXCEPT !.hpc = "error"]]
    /\ UNCHANGED <<watcherVars, parser, tree, lk>>

\* stopWatch, err := watcher.Watch(ctx, watchDir, 300ms, callback): the
\* subscription exists when Watch returns without error, and only then.
HubWatch(c, ok) ==
    /\ ws[c].hpc = "watch"
    /\ ws' = [ws EXCEPT ![c] = IF ok
                  THEN [@ EXCEPT !.hpc = "spawn", !.sub = "registered"]
                  ELSE [@ EXCEPT !.hpc = "error"]]
    /\ UNCHANGED <<watcherVars, parser, tree, lk>>

\* defer stopWatch(); readErr := make(chan error, 1); go func() {...}();
\* defer conn.Close().
HubStartReader(c) ==
    /\ ws[c].hpc = "spawn"
    /\ ws' = [ws EXCEPT ![c] = [@ EXCEPT !.hpc = "loop", !.rpc = "reading"]]
    /\ UNCHANGED <<watcherVars, parser, tree, lk>>

\* Setup failed: conn.WriteJSON({"type": "error", ...}) begins ...
HubErrorBegin(c) ==
    /\ ws[c].hpc = "error"
    /\ ws' = [ws EXCEPT ![c] = [@ EXCEPT !.hpc = "error_writing",
                                         !.writers = @ \cup {"handler"}]]
    /\ UNCHANGED <<watcherVars, parser, tree, lk>>

\* A handler that writes the error message a second time.
HubErrorEndRetry(c) ==
    /\ ws[c].hpc = "error_writing"
    /\ ws' = [ws EXCEPT ![c] = [@ EXCEPT !.hpc = IF ws[c].errors = 0
                                                THEN "error" ELSE "error_close",
                                         !.writers = @ \ {"handler"},
                                         !.errors = @ + 1]]
    /\ UNCHANGED <<watcherVars, parser, tree, lk>>

\* ... and returns; its error is discarded (_ =).
HubErrorEnd(c) ==
    /\ ws[c].hpc = "error_writing"
    /\ ws' = [ws EXCEPT ![c] = [@ EXCEPT !.hpc = "error_close",
                                         !.writers = @ \ {"handler"},
                                         !.errors = @ + 1]]
    /\ UNCHANGED <<watcherVars, parser, tree, lk>>

\* conn.Close(); return.  The deferred cancel() runs when ctx was made.
HubErrorClose(c) ==
    /\ ws[c].hpc = "error_close"
    /\ ws' = [ws EXCEPT ![c] = [@ EXCEPT !.hpc = "done",
                                         !.conn = "closed",
                                         !.ctx = IF @ = "live" THEN "done" ELSE @]]
    /\ UNCHANGED <<watcherVars, parser, tree, lk>>

\* select: case <-refreshCh, and conn.WriteJSON({"type": "refresh"}) begins.
HubSelectRefresh(c) ==
    /\ ws[c].hpc = "loop"
    /\ ws[c].refreshCh > 0
    /\ ws' = [ws EXCEPT ![c] = [@ EXCEPT !.hpc = "writing",
                                         !.refreshCh = @ - 1,
                                         !.writers = @ \cup {"handler"}]]
    /\ UNCHANGED <<watcherVars, parser, tree, lk>>

\* WriteJSON returns: nil and the loop goes on, or an error and the handler
\* returns.
HubWriteEnd(c, ok) ==
    /\ ws[c].hpc = "writing"
    /\ ws' = [ws EXCEPT ![c] = IF ok
                  THEN [@ EXCEPT !.hpc = "loop",
                                 !.writers = @ \ {"handler"},
                                 !.refreshes = @ + 1]
                  ELSE [@ EXCEPT !.hpc = "defer_close",
                                 !.writers = @ \ {"handler"},
                                 !.refreshes = @ + 1,
                                 !.cause = "write"]]
    /\ UNCHANGED <<watcherVars, parser, tree, lk>>

\* select: case <-readErr: return.
HubSelectReadErr(c) ==
    /\ ws[c].hpc = "loop"
    /\ ws[c].readErr > 0
    /\ ws' = [ws EXCEPT ![c] = [@ EXCEPT !.hpc = "defer_close",
                                         !.readErr = @ - 1,
                                         !.cause = "read"]]
    /\ UNCHANGED <<watcherVars, parser, tree, lk>>

\* select: case <-ctx.Done(): return.
HubSelectDone(c) ==
    /\ ws[c].hpc = "loop"
    /\ ws[c].ctx = "done"
    /\ ws' = [ws EXCEPT ![c] = [@ EXCEPT !.hpc = "defer_close",
                                         !.cause = "ctx"]]
    /\ UNCHANGED <<watcherVars, parser, tree, lk>>

\* The deferred calls run last in, first out: conn.Close(), ...
HubDeferClose(c) ==
    /\ ws[c].hpc = "defer_close"
    /\ ws' = [ws EXCEPT ![c] = [@ EXCEPT !.hpc = "defer_stop",
                                         !.conn = "closed"]]
    /\ UNCHANGED <<watcherVars, parser, tree, lk>>

\* A handler that returns without running the deferred stopWatch.
HubDeferStopSkipped(c) ==
    /\ ws[c].hpc = "defer_stop"
    /\ ws' = [ws EXCEPT ![c] = [@ EXCEPT !.hpc = "defer_cancel"]]
    /\ UNCHANGED <<watcherVars, parser, tree, lk>>

\* ... stopWatch(), ...
HubDeferStop(c) ==
    /\ ws[c].hpc = "defer_stop"
    /\ ws' = [ws EXCEPT ![c] = [@ EXCEPT !.hpc = "defer_cancel",
                                         !.sub = "released",
                                         !.released = @ + 1]]
    /\ UNCHANGED <<watcherVars, parser, tree, lk>>

\* ... cancel().
HubDeferCancel(c) ==
    /\ ws[c].hpc = "defer_cancel"
    /\ ws' = [ws EXCEPT ![c] = [@ EXCEPT !.hpc = "done", !.ctx = "done"]]
    /\ UNCHANGED <<watcherVars, parser, tree, lk>>

\* The steps of the handler goroutine.
HubHandler(c) ==
    \/ \E ok \in BOOLEAN : HubUpgrade(c, ok)
    \/ \E ok \in BOOLEAN : HubResolve(c, ok)
    \/ \E ok \in BOOLEAN : HubWatch(c, ok)
    \/ HubStartReader(c)
    \/ HubErrorBegin(c)
    \/ HubErrorEnd(c)
    \/ HubErrorClose(c)
    \/ HubSelectRefresh(c)
    \/ \E ok \in BOOLEAN : HubWriteEnd(c, ok)
    \/ HubSelectReadErr(c)
    \/ HubSelectDone(c)
    \/ HubDeferClose(c)
    \/ HubDeferStop(c)
    \/ HubDeferCancel(c)

\* A reader that answers a client message by writing to the connection.
ReaderMessageEcho(c) ==
    /\ ws[c].rpc = "reading"
    /\ ws[c].conn = "open"
    /\ ws[c].inbox > 0
    /\ ws' = [ws EXCEPT ![c] = [@ EXCEPT !.inbox = @ - 1, !.nread = @ + 1,
                                         !.writers = @ \cup {"reader"}]]
    /\ UNCHANGED <<watcherVars, parser, tree, lk>>

\* A reader that treats a client message as the end of the connection.
ReaderMessageStops(c) ==
    /\ ws[c].rpc = "reading"
    /\ ws[c].conn = "open"
    /\ ws[c].inbox > 0
    /\ ws' = [ws EXCEPT ![c] = [@ EXCEPT !.inbox = @ - 1, !.nread = @ + 1,
                                         !.rpc = "sending"]]
    /\ UNCHANGED <<watcherVars, parser, tree, lk>>

\* The reader goroutine: conn.ReadMessage() returns a message and no error;
\* the message is dropped and the loop reads again.
ReaderMessage(c) ==
    /\ ws[c].rpc = "reading"
    /\ ws[c].conn = "open"
    /\ ws[c].inbox > 0
    /\ ws' = [ws EXCEPT ![c] = [@ EXCEPT !.inbox = @ - 1, !.nread = @ + 1]]
    /\ UNCHANGED <<watcherVars, parser, tree, lk>>

\* conn.ReadMessage() returns an error: the client closed or sent a frame
\* that is not valid, or the handler closed the connection.
ReaderFail(c) ==
    /\ ws[c].rpc = "reading"
    /\ ws[c].peer = "closed" \/ ws[c].conn = "closed"
    /\ ws' = [ws EXCEPT ![c] = [@ EXCEPT !.rpc = "sending"]]
    /\ UNCHANGED <<watcherVars, parser, tree, lk>>

\* A send on a channel without buffer: it waits until the handler is in
\* its select to receive.
ReaderSendUnbuffered(c) ==
    /\ ws[c].rpc = "sending"
    /\ ws[c].readErr < ReadErrCap
    /\ ws[c].hpc = "loop"
    /\ ws' = [ws EXCEPT ![c] = [@ EXCEPT !.rpc = "exited", !.readErr = @ + 1]]
    /\ UNCHANGED <<watcherVars, parser, tree, lk>>

\* readErr <- err; return.  The send blocks while the channel is full.
ReaderSend(c) ==
    /\ ws[c].rpc = "sending"
    /\ ws[c].readErr < ReadErrCap
    /\ ws' = [ws EXCEPT ![c] = [@ EXCEPT !.rpc = "exited", !.readErr = @ + 1]]
    /\ UNCHANGED <<watcherVars, parser, tree, lk>>

\* The steps of the reader goroutine.
HubReader(c) ==
    \/ ReaderMessage(c)
    \/ ReaderFail(c)
    \/ ReaderSend(c)

\* The client sends a well-formed message.
ClientSend(c) ==
    /\ ws[c].conn = "open"
    /\ ws[c].peer = "open"
    /\ ws[c].inbox + ws[c].nread < MaxMsgs
    /\ ws' = [ws EXCEPT ![c] = [@ EXCEPT !.inbox = @ + 1]]
    /\ UNCHANGED <<watcherVars, parser, tree, lk>>

\* The client closes the connection, or sends a frame that is not valid, or
\* the network fails: the next read fails.
ClientClose(c) ==
    /\ ws[c].conn = "open"
    /\ ws[c].peer = "open"
    /\ ws' = [ws EXCEPT ![c] = [@ EXCEPT !.peer = "closed"]]
    /\ UNCHANGED <<watcherVars, parser, tree, lk>>

\* The request's context is cancelled.
CtxCancel(c) ==
    /\ ws[c].ctx = "live"
    /\ ws[c].hpc # "done"
    /\ ws' = [ws EXCEPT ![c] = [@ EXCEPT !.ctx = "done"]]
    /\ UNCHANGED <<watcherVars, parser, tree, lk>>

\* The watch subscription calls the handler's callback:
\* select { case refreshCh <- struct{}{}: default: }.
WatchCallback(c) ==
    /\ ws[c].sub = "registered"
    /\ ws[c].refreshes + ws[c].refreshCh < MaxRefresh
    /\ ws' = [ws EXCEPT ![c] = [@ EXCEPT !.refreshCh = Send(@)]]
    /\ UNCHANGED <<watcherVars, parser, tree, lk>>

NextHub ==
    \/ \E c \in Conns : HubHandler(c)
    \/ \E c \in Conns : HubReader(c)
    \/ \E c \in Conns : ClientSend(c)
    \/ \E c \in Conns : ClientClose(c)
    \/ \E c \in Conns : CtxCancel(c)
    \/ \E c \in Conns : WatchCallback(c)

SpecHub == Init /\ [][NextHub]_vars

\* Both goroutines of a connection are scheduled whenever they can take a
\* step.  Nothing obliges the client, the request's context or the file
\* system to do anything.
SpecHubFair ==
    /\ Init
    /\ [][NextHub]_vars
    /\ \A c \in Conns : WF_vars(HubHandler(c))
    /\ \A c \in Conns : WF_vars(HubReader(c))


\* ======================================================= git.Parse
\* Text is a sequence of one-character strings; the input of Parse is the
\* sequence of lines strings.Split(raw, "\n") yields.

\* strings.HasPrefix
HasPrefix(s, prefix) ==
    Len(s) >= Len(prefix) /\ SubSeq(s, 1, Len(prefix)) = prefix

\* A TrimPrefix that trims nothing.
TrimPrefixNone(s, prefix) == s

\* strings.TrimPrefix
TrimPrefix(s, prefix) ==
    IF HasPrefix(s, prefix) THEN SubSeq(s, Len(prefix) + 1, Len(s)) ELSE s

\* strings.Index, counted from 1; 0 when sep does not occur in s.
Index(s, sep) ==
    LET at == {k \in 1..(Len(s) - Len(sep) + 1) :
                  SubSeq(s, k, k + Len(sep) - 1) = sep}
    IN IF at = {} THEN 0 ELSE CHOOSE k \in at : \A j \in at : k <= j

\* strings.SplitN(s, sep, 2)
SplitN2(s, sep) ==
    LET k == Index(s, sep)
    IN IF k = 0 THEN <<s>>
       ELSE <<SubSeq(s, 1, k - 1), SubSeq(s, k + Len(sep), Len(s))>>

\* The lines ls are empty or white space only.
IsBlank(ls) ==
    \A k \in 1..Len(ls) : \A j \in 1..Len(ls[k]) : ls[k][j] \in {" ", "\t", "\r"}

\* The white space of strings.TrimSpace that the inputs use.
WhiteSpace == {" ", "\t", "\r", "\n"}

\* strings.TrimSpace
TrimSpace(t) ==
    LET black == {k \in 1..Len(t) : t[k] \notin WhiteSpace}
    IN IF black = {} THEN <<>>
       ELSE SubSeq(t, CHOOSE k \in black : \A j \in black : k <= j,
                      CHOOSE k \in black : \A j \in black : k >= j)

\* strings.Split(t, "\n")
RECURSIVE Split(_)
Split(t) ==
    LET k == Index(t, <<"\n">>)
    IN IF k = 0 THEN <<t>>
       ELSE <<SubSeq(t, 1, k - 1)>> \o Split(SubSeq(t, k + 1, Len(t)))

\* The text whose lines are ls: the lines with "\n" between them.
RECURSIVE Join(_)
Join(ls) ==
    IF ls = <<>> THEN <<>>
    ELSE IF Len(ls) = 1 THEN ls[1]
    ELSE ls[1] \o <<"\n">> \o Join(Tail(ls))

\* The literals of Parse.

\* "diff --git "
PfxDiffGit ==
    <<"d", "i", "f", "f", " ", "-", "-", "g", "i", "t", " ">>

\* " a/"
PfxA ==
    <<" ", "a", "/">>

\* " b/"
PfxB ==
    <<" ", "b", "/">>

\* "new file mode"
PfxNewFile ==
    <<"n", "e", "w", " ", "f", "i", "l", "e", " ", "m", "o", "d", "e">>

\* "deleted file mode"
PfxDeletedFile ==
    <<"d", "e", "l", "e", "t", "e", "d", " ", "f", "i", "l", "e", " ", "m",
      "o", "d", "e">>

\* "rename from "
PfxRenameFrom ==
    <<"r", "e", "n", "a", "m", "e", " ", "f", "r", "o", "m", " ">>

\* "rename to "
PfxRenameTo ==
    <<"r", "e", "n", "a", "m", "e", " ", "t", "o", " ">>

\* "Binary files"
PfxBinary ==
    <<"B", "i", "n", "a", "r", "y", " ", "f", "i", "l", "e", "s">>

\* "--- "
PfxMinus3 ==
    <<"-", "-", "-", " ">>

\* "+++ "
PfxPlus3 ==
    <<"+", "+", "+", " ">>

\* "index "
PfxIndex ==
    <<"i", "n", "d", "e", "x", " ">>

\* "similarity index"
PfxSimilarity ==
    <<"s", "i", "m", "i", "l", "a", "r", "i", "t", "y", " ", "i", "n", "d",
      "e", "x">>

\* "old mode"
PfxOldMode ==
    <<"o", "l", "d", " ", "m", "o", "d", "e">>

\* "new mode"
PfxNewMode ==
    <<"n", "e", "w", " ", "m", "o", "d", "e">>

\* "@@"
PfxHunk ==
    <<"@", "@">>

\* "/dev/null"
DevNull ==
    <<"/", "d", "e", "v", "/", "n", "u", "l", "l">>

\* the marker of a missing final newline
NoNewline ==
    <<"\\", " ", "N", "o", " ", "n", "e", "w", "l", "i", "n", "e", " ", "a",
      "t", " ", "e", "n", "d", " ", "o", "f", " ", "f", "i", "l", "e">>


\* The lines inputs are made of.

\* diff --git a/x b/x
LnDiff ==
    <<"d", "i", "f", "f", " ", "-", "-", "g", "i", "t", " ", "a", "/", "x",
      " ", "b", "/", "x">>

\* @@ -1 +1 @@
LnHunk ==
    <<"@", "@", " ", "-", "1", " ", "+", "1", " ", "@", "@">>

\* an added line
LnAdd ==
    <<"+", "y">>

\* a removed line
LnDel ==
    <<"-", "y">>

\* a context line
LnCtx ==
    <<" ", "y">>

\* +++ b/x
LnPlus3 ==
    <<"+", "+", "+", " ", "b", "/", "x">>

\* new file mode 100644
LnNewFile ==
    <<"n", "e", "w", " ", "f", "i", "l", "e", " ", "m", "o", "d", "e", " ",
      "1", "0", "0", "6", "4", "4">>

\* an empty line
LnEmpty ==
    <<>>

\* a line of one space
LnSpace ==
    <<" ">>

\* a line of one tab
LnTab ==
    <<"\t">>

\* a line of one carriage return
LnCr ==
    <<"\r">>

\* The marker line "diff --git a/P b/Q".
MarkerLine(P, Q) == PfxDiffGit \o <<"a", "/">> \o P \o PfxB \o Q

\* The line "rename from X".
RenameFromLine(X) == PfxRenameFrom \o X

\* The line "rename to Y".
RenameToLine(Y) == PfxRenameTo \o Y

\* diff --git a/p b/q
LnDiffPQ ==
    MarkerLine(<<"p">>, <<"q">>)

\* deleted file mode 100644
LnDeletedFile ==
    PfxDeletedFile \o <<" ", "1", "0", "0", "6", "4", "4">>

\* rename from o
LnRenameFrom ==
    RenameFromLine(<<"o">>)

\* rename to n
LnRenameTo ==
    RenameToLine(<<"n">>)

\* The decimal digits, in order.
Digits == <<"0", "1", "2", "3", "4", "5", "6", "7", "8", "9">>

IsDigit(ch) == \E k \in 1..10 : Digits[k] = ch

DigitVal(ch) == (CHOOSE k \in 1..10 : Digits[k] = ch) - 1

\* strconv.Itoa for a number that is not negative.
RECURSIVE Itoa(_)
Itoa(n) ==
    IF n < 10 THEN <<Digits[n + 1]>>
    ELSE Itoa(n \div 10) \o <<Digits[(n % 10) + 1]>>

Absent == -1          \* a range written without ",len"

\* The range "start,len", or "start" when len is Absent.
RangeText(start, len) ==
    Itoa(start) \o (IF len = Absent THEN <<>> ELSE <<",">> \o Itoa(len))

\* The hunk header "@@ -a,b +c,d @@" followed by the text trail.
HunkHeaderOf(a, b, c, d, trail) ==
    <<"@", "@", " ", "-">> \o RangeText(a, b) \o <<" ", "+">>
        \o RangeText(c, d) \o <<" ", "@", "@">> \o trail

\* What may follow the closing @@: nothing, a function name, or text that
\* looks like ranges and another @@.
Trails ==
    {<<>>, <<" ", "f", "(", ")">>,
     <<" ", "-", "9", ",", "9", " ", "+", "9", ",", "9", " ", "@", "@">>}

\* The hunk headers given to Parse, as (a, b, c, d, trail).
HunkParams == {1, 10} \X {Absent, 0, 3} \X {1, 11} \X {Absent, 5, 12} \X Trails

\* A file with one hunk, for every hunk header.
HunkInputs ==
    {<<LnDiff, HunkHeaderOf(q[1], q[2], q[3], q[4], q[5]), LnAdd>> : q \in HunkParams}

\* The names of renamed files: plain, and with a space inside.
RenameNames == {<<"o">>, <<"n">>, <<"o", " ", "n">>}

\* A renamed file with one hunk, for every pair of names on the marker line
\* and every pair on the rename lines.
RenameInputs ==
    {<<MarkerLine(P, Q), RenameFromLine(X), RenameToLine(Y), LnHunk, LnAdd>> :
        P \in {<<"p">>, <<"q">>}, Q \in {<<"p">>, <<"q">>},
        X \in RenameNames, Y \in RenameNames}

\* The paths of marker lines: plain, in a directory, and in directories
\* whose names have a space inside or end in " b" or " a".
MarkerNames ==
    {<<"p">>, <<"d", "/", "q">>,
     <<"m", "y", " ", "d", "/", "p">>, <<"x", " ", "b", "/", "y">>,
     <<"x", " ", "a", "/", "y">>}

\* A marker line on its own, and one followed by a hunk, for every pair of
\* paths.
MarkerInputs ==
    {<<MarkerLine(P, Q)>> : P \in MarkerNames, Q \in MarkerNames}
        \cup {<<MarkerLine(P, Q), LnHunk, LnAdd>> : P \in MarkerNames, Q \in MarkerNames}

Alphabet == {LnDiff, LnHunk, LnAdd, LnDel, LnCtx, LnPlus3, LnNewFile, LnEmpty}

\* The lines of file headers: a marker with two names, the mode and the
\* rename indicators.
HeaderAlphabet ==
    {LnDiffPQ, LnNewFile, LnDeletedFile, LnRenameFrom, LnRenameTo, LnHunk}

\* Lines of white space.
BlankAlphabet == {LnEmpty, LnSpace, LnTab, LnCr}

\* The sequences of at most n lines of the set A.
RECURSIVE SeqsOver(_, _)
SeqsOver(A, n) ==
    IF n = 0 THEN {<<>>}
    ELSE LET shorter == SeqsOver(A, n - 1)
         IN shorter \cup {Append(s, l) : s \in {t \in shorter : Len(t) = n - 1},
                                          l \in A}

SeqsUpTo(n) == SeqsOver(Alphabet, n)

\* The inputs of at most n lines: diff bodies, file headers, white space,
\* one hunk under every hunk header, renamed files, and marker lines.
InputsUpTo(n) ==
    (SeqsUpTo(n) \cup SeqsOver(HeaderAlphabet, n) \cup SeqsOver(BlankAlphabet, n)
        \cup HunkInputs \cup RenameInputs \cup MarkerInputs) \ {<<>>}

\* current = &FileDiff{Status: "modified"}
NewFileDiff ==
    [oldName |-> <<>>, newName |-> <<>>, status |-> "modified",
     additions |-> 0, deletions |-> 0, isBinary |-> FALSE, hunks |-> <<>>]

\* The number a non-empty sequence of digits denotes.
RECURSIVE DecVal(_)
DecVal(s) ==
    IF s = <<>> THEN 0
    ELSE DecVal(SubSeq(s, 1, Len(s) - 1)) * 10 + DigitVal(s[Len(s)])

\* strconv.Atoi with its error dropped: an optional sign and digits; 0 for
\* anything else.  (Numbers stay far below 2^63.)
Atoi(s) ==
    LET signed == s # <<>> /\ s[1] \in {"+", "-"}
        body == IF signed THEN Tail(s) ELSE s
    IN IF body = <<>> \/ \E k \in 1..Len(body) : ~IsDigit(body[k]) THEN 0
       ELSE IF signed /\ s[1] = "-" THEN 0 - DecVal(body)
       ELSE DecVal(body)

\* The fields of s, given the field cur that the characters before s began.
RECURSIVE FieldsAfter(_, _)
FieldsAfter(cur, s) ==
    IF s = <<>> THEN (IF cur = <<>> THEN <<>> ELSE <<cur>>)
    ELSE IF Head(s) \in WhiteSpace
    THEN (IF cur = <<>> THEN <<>> ELSE <<cur>>) \o FieldsAfter(<<>>, Tail(s))
    ELSE FieldsAfter(Append(cur, Head(s)), Tail(s))

\* strings.Fields: the maximal runs of characters that are not white space.
Fields(s) == FieldsAfter(<<>>, s)

\* A range without ",len" that counts no line.
parseRangeNoDefault(s) ==
    LET parts == SplitN2(s, <<",">>)
    IN [start |-> Atoi(parts[1]),
        lines |-> IF Len(parts) = 2 THEN Atoi(parts[2]) ELSE 0]

\* parseRange: "start,lines" or "start", where lines is then 1.
parseRange(s) ==
    LET parts == SplitN2(s, <<",">>)
    IN [start |-> Atoi(parts[1]),
        lines |-> IF Len(parts) = 2 THEN Atoi(parts[2]) ELSE 1]

\* for _, r := range ranges: a field that begins with - sets the old
\* range, one that begins with + the new range.
RECURSIVE ApplyRanges(_, _)
ApplyRanges(ranges, hunk) ==
    IF ranges = <<>> THEN hunk
    ELSE LET r == Head(ranges)
             rng == parseRange(Tail(r))
             next == IF HasPrefix(r, <<"-">>)
                     THEN [hunk EXCEPT !.oldStart = rng.start, !.oldLines = rng.lines]
                     ELSE IF HasPrefix(r, <<"+">>)
                     THEN [hunk EXCEPT !.newStart = rng.start, !.newLines = rng.lines]
                     ELSE hunk
         IN ApplyRanges(Tail(ranges), next)

\* parseHunkHeader: the fields between "@@ " and the first " @@".
parseHunkHeader(header, hunk) ==
    LET parts == SplitN2(TrimPrefix(header, <<"@", "@", " ">>), <<" ", "@", "@">>)
    IN ApplyRanges(Fields(parts[1]), hunk)

\* currentHunk = &Hunk{Header: line}; parseHunkHeader(line, currentHunk)
NewHunk(line) ==
    parseHunkHeader(line, [header |-> line, lines |-> <<>>,
                           oldStart |-> 0, oldLines |-> 0,
                           newStart |-> 0, newLines |-> 0])

\* A file finalized without its in-progress hunk.
WithHunkDropped(cur, hunk) == cur

\* if currentHunk != nil { current.Hunks = append(current.Hunks, *currentHunk) }
\* A pointer is a sequence: empty for nil, else holding the object.
WithHunk(cur, hunk) ==
    IF hunk = <<>> THEN cur ELSE [cur EXCEPT !.hunks = Append(@, hunk[1])]

\* Finalized files put in front of the earlier ones.
CloseFileFirst(files, cur, hunk) ==
    IF cur = <<>> THEN files ELSE <<WithHunk(cur[1], hunk)>> \o files

\* if current != nil { (append the hunk); result.Files = append(result.Files,
\* *current) }
CloseFile(files, cur, hunk) ==
    IF cur = <<>> THEN files ELSE Append(files, WithHunk(cur[1], hunk))

\* The five header lines that change the file: mode, rename, binary.
IsFileMode(line) ==
    \/ HasPrefix(line, PfxNewFile)
    \/ HasPrefix(line, PfxDeletedFile)
    \/ HasPrefix(line, PfxRenameFrom)
    \/ HasPrefix(line, PfxRenameTo)
    \/ HasPrefix(line, PfxBinary)

\* A "new file mode" line that leaves the old name alone.
FileModeKeepOld(cur, line) ==
    IF HasPrefix(line, PfxNewFile)
    THEN [cur EXCEPT !.status = "added"]
    ELSE IF HasPrefix(line, PfxDeletedFile)
    THEN [cur EXCEPT !.status = "deleted", !.newName = DevNull]
    ELSE IF HasPrefix(line, PfxRenameFrom)
    THEN [cur EXCEPT !.status = "renamed",
                     !.oldName = TrimPrefix(line, PfxRenameFrom)]
    ELSE IF HasPrefix(line, PfxRenameTo)
    THEN [cur EXCEPT !.newName = TrimPrefix(line, PfxRenameTo)]
    ELSE [cur EXCEPT !.isBinary = TRUE]

\* The mode, rename and binary lines, in the order Parse tests them.
FileMode(cur, line) ==
    IF HasPrefix(line, PfxNewFile)
    THEN [cur EXCEPT !.status = "added", !.oldName = DevNull]
    ELSE IF HasPrefix(line, PfxDeletedFile)
    THEN [cur EXCEPT !.status = "deleted", !.newName = DevNull]
    ELSE IF HasPrefix(line, PfxRenameFrom)
    THEN [cur EXCEPT !.status = "renamed",
                     !.oldName = TrimPrefix(line, PfxRenameFrom)]
    ELSE IF HasPrefix(line, PfxRenameTo)
    THEN [cur EXCEPT !.newName = TrimPrefix(line, PfxRenameTo)]
    ELSE [cur EXCEPT !.isBinary = TRUE]

\* The lines Parse skips: ---, +++, index, similarity index, old/new mode.
IsSkipped(line) ==
    \/ HasPrefix(line, PfxMinus3)
    \/ HasPrefix(line, PfxPlus3)
    \/ HasPrefix(line, PfxIndex)
    \/ HasPrefix(line, PfxSimilarity)
    \/ HasPrefix(line, PfxOldMode)
    \/ HasPrefix(line, PfxNewMode)

\* The type of the Line a content line becomes; "none" when it is dropped.
LineType(line) ==
    IF HasPrefix(line, <<"+">>) THEN "add"
    ELSE IF HasPrefix(line, <<"-">>) THEN "del"
    ELSE IF HasPrefix(line, <<" ">>) THEN "context"
    ELSE "none"

\* Line{Type: ..., Content: line[1:]}
LineOf(line) == [type |-> LineType(line), content |-> Tail(line)]

\* A result that counts added lines and forgets removed ones.
ResultCountAddOnly(res, type) ==
    IF type = "add" THEN [res EXCEPT !.additions = @ + 1] ELSE res

\* result.Additions++ / result.Deletions++
ResultCount(res, type) ==
    IF type = "add" THEN [res EXCEPT !.additions = @ + 1]
    ELSE IF type = "del" THEN [res EXCEPT !.deletions = @ + 1]
    ELSE res

\* current.Additions++ / current.Deletions++
FileCount(cur, type) ==
    IF type = "add" THEN [cur EXCEPT !.additions = @ + 1]
    ELSE IF type = "del" THEN [cur EXCEPT !.deletions = @ + 1]
    ELSE cur

\* The functions that run git diff and parse what it writes.
DiffFns == {"Diff", "DiffInRepo"}

\* The exit codes of the command: 0 for no difference, 1 for differences,
\* 2 and 128 for failures, -1 for a command that a signal ended.
ExitCodes == {0, 1, 2, 128, 0 - 1}

\* What the command writes: white space, or a diff of at most n lines with
\* or without a line end after the last line.
DiffOutputs(n) ==
    {Join(in) : in \in SeqsOver(BlankAlphabet, 2)
                       \cup SeqsOver({LnDiff, LnHunk, LnAdd, LnEmpty}, n)}

\* Diff or DiffInRepo is called, and the command will write t.
DiffOn(f, t) == [ParserOn(<<>>) EXCEPT !.pc = "exec", !.fn = f, !.out = t]

\* Only exit code 0 is no error.
SucceedsOnZero(ran, code) == ran /\ code = 0

\* out, err := cmd.Output(): err is nil when the command ran and exited
\* with 0, an *exec.ExitError when it ran and ended otherwise, and another
\* error when it did not start.  The function goes on when err is nil or an
\* ExitError with code 1.
Succeeds(ran, code) ==
    LET errNil == ran /\ code = 0
        exitErr == ran /\ code # 0
    IN errNil \/ (exitErr /\ code = 1)

\* Parse(raw) is called with a text, or Diff or DiffInRepo is called.
InitParse ==
    /\ ManagerInit
    /\ ws = [c \in Conns |-> WsStart]
    /\ parser \in {ParserOn(Join(in)) : in \in InputsUpTo(MaxLines)}
                  \cup {DiffOn(f, t) : f \in DiffFns, t \in DiffOutputs(MaxLines - 1)}
    /\ tree = TreeIdle
    /\ lk = LkIdle

\* The command ends: on an error other than exit code 1 the function
\* returns nil and the error; else raw := string(out) and Parse(raw).
DiffExec(f) ==
    /\ parser.pc = "exec"
    /\ parser.fn = f
    /\ \E ran \in BOOLEAN, code \in ExitCodes :
          /\ ran \/ code = 0
          /\ parser' = IF Succeeds(ran, code)
                       THEN [parser EXCEPT !.ran = ran, !.code = code,
                                           !.raw = parser.out, !.pc = "start"]
                       ELSE [parser EXCEPT !.ran = ran, !.code = code,
                                           !.err = TRUE, !.pc = "failed"]
    /\ UNCHANGED <<watcherVars, ws, tree, lk>>

\* A result that carries the text without the white space around it.
DiffReturnTrimmed(f) ==
    /\ parser.pc = "done"
    /\ parser.fn = f
    /\ parser' = [parser EXCEPT
           !.result.rawDiff = TrimSpace(parser.raw),
           !.ret = <<[parser.result EXCEPT !.rawDiff = TrimSpace(parser.raw)]>>,
           !.pc = "returned"]
    /\ UNCHANGED <<watcherVars, ws, tree, lk>>

\* result.RawDiff = raw; return result, nil
DiffReturn(f) ==
    /\ parser.pc = "done"
    /\ parser.fn = f
    /\ parser' = [parser EXCEPT
           !.result.rawDiff = parser.raw,
           !.ret = <<[parser.result EXCEPT !.rawDiff = parser.raw]>>,
           !.pc = "returned"]
    /\ UNCHANGED <<watcherVars, ws, tree, lk>>

\* if strings.TrimSpace(raw) == "" { return result };
\* lines := strings.Split(raw, "\n")
ParseStart ==
    /\ parser.pc = "start"
    /\ parser' = IF TrimSpace(parser.raw) = <<>>
                 THEN [parser EXCEPT !.pc = "done"]
                 ELSE [parser EXCEPT !.pc = "loop", !.lines = Split(parser.raw)]
    /\ UNCHANGED <<watcherVars, ws, tree, lk>>

\* The loop is at line i.
AtLine == parser.pc = "loop" /\ parser.i <= Len(parser.lines)

ThisLine == parser.lines[parser.i]

\* A line with the prefix "diff --git ": finalize the file before, start a
\* new one and take its names from the line.
ParseFileHeader ==
    /\ AtLine
    /\ HasPrefix(ThisLine, PfxDiffGit)
    /\ LET parts == SplitN2(ThisLine, PfxB)
           aParts == SplitN2(ThisLine, PfxA)
           newName == IF Len(parts) = 2 THEN parts[2] ELSE <<>>
           oldName == IF Len(aParts) = 2
                      THEN SplitN2(aParts[2], PfxB)[1] ELSE <<>>
       IN parser' = [parser EXCEPT
              !.result.files = CloseFile(@, parser.current, parser.currentHunk),
              !.current = <<[NewFileDiff EXCEPT !.newName = newName,
                                                !.oldName = oldName]>>,
              !.currentHunk = <<>>,
              !.i = @ + 1]
    /\ UNCHANGED <<watcherVars, ws, tree, lk>>

\* if current == nil { continue }
ParseNoFile ==
    /\ AtLine
    /\ ~HasPrefix(ThisLine, PfxDiffGit)
    /\ parser.current = <<>>
    /\ parser' = [parser EXCEPT !.i = @ + 1]
    /\ UNCHANGED <<watcherVars, ws, tree, lk>>

\* A mode, rename or binary line.
ParseFileMode ==
    /\ AtLine
    /\ ~HasPrefix(ThisLine, PfxDiffGit)
    /\ parser.current # <<>>
    /\ IsFileMode(ThisLine)
    /\ parser' = [parser EXCEPT !.current = <<FileMode(@[1], ThisLine)>>,
                                !.i = @ + 1]
    /\ UNCHANGED <<watcherVars, ws, tree, lk>>

\* A skipped line.
ParseSkipLine ==
    /\ AtLine
    /\ ~HasPrefix(ThisLine, PfxDiffGit)
    /\ parser.current # <<>>
    /\ ~IsFileMode(ThisLine)
    /\ IsSkipped(ThisLine)
    /\ parser' = [parser EXCEPT !.i = @ + 1]
    /\ UNCHANGED <<watcherVars, ws, tree, lk>>

\* A hunk header: append the hunk before and open a new one.
ParseHunkHeader ==
    /\ AtLine
    /\ ~HasPrefix(ThisLine, PfxDiffGit)
    /\ parser.current # <<>>
    /\ ~IsFileMode(ThisLine)
    /\ ~IsSkipped(ThisLine)
    /\ HasPrefix(ThisLine, PfxHunk)
    /\ parser' = [parser EXCEPT
           !.current = <<WithHunk(@[1], parser.currentHunk)>>,
           !.currentHunk = <<NewHunk(ThisLine)>>,
           !.i = @ + 1]
    /\ UNCHANGED <<watcherVars, ws, tree, lk>>

\* Any other line: inside a hunk a line that begins with +, - or a space
\* is appended to the hunk and counted; every other line is dropped.
ParseContent ==
    /\ AtLine
    /\ ~HasPrefix(ThisLine, PfxDiffGit)
    /\ parser.current # <<>>
    /\ ~IsFileMode(ThisLine)
    /\ ~IsSkipped(ThisLine)
    /\ ~HasPrefix(ThisLine, PfxHunk)
    /\ IF parser.currentHunk # <<>> /\ LineType(ThisLine) # "none"
       THEN parser' = [parser EXCEPT
                !.currentHunk = <<[@[1] EXCEPT !.lines = Append(@, LineOf(ThisLine))]>>,
                !.current = <<FileCount(@[1], LineType(ThisLine))>>,
                !.result = ResultCount(@, LineType(ThisLine)),
                !.i = @ + 1]
       ELSE parser' = [parser EXCEPT !.i = @ + 1]
    /\ UNCHANGED <<watcherVars, ws, tree, lk>>

\* After the last line: flush the last file and return.
ParseFlush ==
    /\ parser.pc = "loop"
    /\ parser.i > Len(parser.lines)
    /\ parser' = [parser EXCEPT
           !.result.files = CloseFile(@, parser.current, parser.currentHunk),
           !.pc = "done"]
    /\ UNCHANGED <<watcherVars, ws, tree, lk>>

NextParse ==
    \/ ParseStart
    \/ ParseFileHeader
    \/ ParseNoFile
    \/ ParseFileMode
    \/ ParseSkipLine
    \/ ParseHunkHeader
    \/ ParseContent
    \/ ParseFlush
    \/ \E f \in DiffFns : DiffExec(f)
    \/ \E f \in DiffFns : DiffReturn(f)

SpecParse == InitParse /\ [][NextParse]_vars


\* ------------------------------------------- ignore rules, walk and run()

\* The names of files and directories.
NmRoot == <<"r">>              \* the watched directory
NmGit == <<".", "g", "i", "t">>
NmHidden == <<".", "i">>           \* a hidden directory that skipDirs does not list
NmDist == <<"d", "i", "s", "t">>
NmSrc == <<"s">>
NmLib == <<"l">>
NmTmp == <<"t">>               \* a name the repository's .gitignore lists
NmFile == <<"a">>
NmDotFile == <<".", "e">>          \* a hidden file

\* var skipDirs
skipDirs ==
    {<<"n", "o", "d", "e", "_", "m", "o", "d", "u", "l", "e", "s">>,
     <<".", "n", "e", "x", "t">>, <<".", "n", "u", "x", "t">>,
     <<"v", "e", "n", "d", "o", "r">>, NmDist,
     <<"b", "u", "i", "l", "d">>, <<".", "c", "a", "c", "h", "e">>,
     <<"_", "_", "p", "y", "c", "a", "c", "h", "e", "_", "_">>}

Root == <<NmRoot>>

\* filepath.Base
Base(path) == path[Len(path)]

\* filepath.Dir
Parent(path) == SubSeq(path, 1, Len(path) - 1)

\* isGitPath: a component of path is ".git".
isGitPath(path) == \E k \in 1..Len(path) : path[k] = NmGit

\* What git check-ignore says of path in the repository at Root: a path in
\* or under a directory named t is ignored.
RepoIgnores(path) == \E k \in 2..Len(path) : path[k] = NmTmp

\* How a run of git check-ignore ends: with an answer, with a fatal error
\* (not a repository, path outside it), or not started (no git).
Outcomes == {"answer", "fatal", "missing"}

\* The exit code of a command that started: 0 for ignored, 1 for not
\* ignored, 128 for a fatal error.
ExitOf(o, path) ==
    IF o = "answer" THEN (IF RepoIgnores(path) THEN 0 ELSE 1) ELSE 128

\* A query that takes every outcome but "not ignored" for "ignored".
gitIgnoredFailClosed(repoDir, path, o) ==
    IF repoDir = <<>> THEN FALSE
    ELSE ~(o # "missing" /\ ExitOf(o, path) = 1)

\* gitIgnored: false for an empty repoDir, else whether cmd.Run() returned
\* nil, which it does when the command started and exited with 0.
gitIgnored(repoDir, path, o) ==
    IF repoDir = <<>> THEN FALSE
    ELSE o # "missing" /\ ExitOf(o, path) = 0

\* The record of that call.
QueryOf(repoDir, path, o) ==
    [repoDir |-> repoDir, path |-> path, outcome |-> o,
     result |-> gitIgnored(repoDir, path, o)]

\* The directories there can be: six under the root, and one directory s
\* in each of them.
Level1 == {NmGit, NmHidden, NmDist, NmLib, NmSrc, NmTmp}

DirUniverse ==
    {Root} \cup {<<NmRoot, x>> : x \in Level1} \cup {<<NmRoot, x, NmSrc>> : x \in Level1}

\* The names in the order filepath.WalkDir reads them.
NameOrder == <<NmGit, NmHidden, NmDist, NmLib, NmSrc, NmTmp>>

\* The directories in path on the disk, in that order.
ChildSeq(disk, path) ==
    LET names == SelectSeq(NameOrder, LAMBDA x : Append(path, x) \in disk)
    IN [k \in 1..Len(names) |-> Append(path, names[k])]

\* The disks Subscribe can find: the root and at most n other directories,
\* each in a directory that exists.
Disks(n) ==
    {d \in SUBSET DirUniverse :
        /\ Root \in d
        /\ Cardinality(d) <= n + 1
        /\ \A q \in d : q = Root \/ Parent(q) \in d}

\* The paths gitIgnored is called with on its own: the directories, a path
\* outside the repository and a file.
QueryPaths == DirUniverse \cup {<<<<"o">>>>, <<NmRoot, NmSrc, NmFile>>}

\* gitIgnored(repoDir, path) is called and the command will end with o.
TreeCall(repoDir, path, o) ==
    [TreeIdle EXCEPT !.pc = "gitIgnored",
                     !.query = [repoDir |-> repoDir, path |-> path,
                                outcome |-> o, result |-> FALSE]]

\* Subscribe(Root) has made the watcher and calls addRecursive(w, dir, dir).
TreeSubscribe(disk) ==
    [TreeIdle EXCEPT !.pc = "walk", !.dir = Root, !.disk = disk,
                     !.todo = <<Root>>, !.walkRoot = Root, !.initial = TRUE]

InitWalk ==
    /\ ManagerInit
    /\ ws = [c \in Conns |-> WsStart]
    /\ parser = ParserIdle
    /\ lk = LkIdle
    /\ tree \in {TreeCall(r, q, o) : r \in {<<>>, Root}, q \in QueryPaths, o \in Outcomes}
                \cup {TreeSubscribe(d) : d \in Disks(MaxDirs)}

\* The call of gitIgnored returns.
GitIgnoredCall ==
    /\ tree.pc = "gitIgnored"
    /\ tree' = [tree EXCEPT
           !.query = QueryOf(tree.query.repoDir, tree.query.path, tree.query.outcome),
           !.pc = "answered"]
    /\ UNCHANGED <<watcherVars, ws, parser, lk>>

\* A query with outcome o, or a registration, counts as failed.
Failed(o) == o # "answer"

\* A walk that does not prune: it leaves a skipped directory unregistered
\* and goes on into it.
WalkVisitNoPrune(o, addOk, readOk) ==
    /\ tree.pc = "walk"
    /\ tree.todo # <<>>
    /\ LET path == Head(tree.todo)
           rest == Tail(tree.todo)
           offline == path # tree.walkRoot
                      /\ (Base(path) \in skipDirs \/ HasPrefix(Base(path), <<".">>))
           asks == ~isGitPath(path) /\ path # tree.walkRoot /\ ~offline
           ignored == asks /\ gitIgnored(tree.dir, path, o)
           adds == ~isGitPath(path) /\ ~offline /\ ~ignored
           faults == (IF asks /\ Failed(o) THEN 1 ELSE 0)
                     + (IF adds /\ ~addOk THEN 1 ELSE 0)
                     + (IF adds /\ ~readOk THEN 1 ELSE 0)
       IN /\ asks \/ o = "answer"
          /\ adds \/ (addOk /\ readOk)
          /\ tree.nfault + faults <= MaxFaults
          /\ tree' = [tree EXCEPT
                 !.nfault = @ + faults,
                 !.todo = IF readOk
                          THEN ChildSeq(tree.disk, path) \o rest ELSE rest,
                 !.watched = IF adds /\ addOk THEN @ \cup {path} ELSE @,
                 !.query = IF asks THEN QueryOf(tree.dir, path, o) ELSE @,
                 !.upset = @ \/ (asks /\ Failed(o))
                             \/ (adds /\ ~(addOk /\ readOk)),
                 !.addFailed = IF adds /\ ~addOk THEN @ \cup {path} ELSE @,
                 !.unread = IF adds /\ ~readOk THEN @ \cup {path} ELSE @,
                 !.foul = @ \/ (asks /\ Failed(o)),
                 !.walked = <<>>]
    /\ UNCHANGED <<watcherVars, ws, parser, lk>>

\* A walk that returns the error of a failed registration or directory
\* read, which ends the walk.
WalkVisitAbort(o, addOk, readOk) ==
    /\ tree.pc = "walk"
    /\ tree.todo # <<>>
    /\ LET path == Head(tree.todo)
           rest == Tail(tree.todo)
           offline == path # tree.walkRoot
                      /\ (Base(path) \in skipDirs \/ HasPrefix(Base(path), <<".">>))
           asks == ~isGitPath(path) /\ path # tree.walkRoot /\ ~offline
           ignored == asks /\ gitIgnored(tree.dir, path, o)
           adds == ~isGitPath(path) /\ ~offline /\ ~ignored
           faults == (IF asks /\ Failed(o) THEN 1 ELSE 0)
                     + (IF adds /\ ~addOk THEN 1 ELSE 0)
                     + (IF adds /\ ~readOk THEN 1 ELSE 0)
       IN /\ asks \/ o = "answer"
          /\ adds \/ (addOk /\ readOk)
          /\ tree.nfault + faults <= MaxFaults
          /\ tree' = [tree EXCEPT
                 !.nfault = @ + faults,
                 !.todo = IF adds /\ ~(addOk /\ readOk) THEN <<>>
                          ELSE IF adds THEN ChildSeq(tree.disk, path) \o rest
                          ELSE rest,
                 !.watched = IF adds /\ addOk THEN @ \cup {path} ELSE @,
                 !.query = IF asks THEN QueryOf(tree.dir, path, o) ELSE @,
                 !.upset = @ \/ (asks /\ Failed(o))
                             \/ (adds /\ ~(addOk /\ readOk)),
                 !.addFailed = IF adds /\ ~addOk THEN @ \cup {path} ELSE @,
                 !.unread = IF adds /\ ~readOk THEN @ \cup {path} ELSE @,
                 !.foul = @ \/ (asks /\ Failed(o)),
                 !.walked = <<>>]
    /\ UNCHANGED <<watcherVars, ws, parser, lk>>

\* The callback of filepath.WalkDir for the next directory: SkipDir for a
\* path with a .git component, and below the root of the walk for a name
\* in skipDirs, a name that begins with "." and a path git ignores; else
\* w.Add(path), which may fail and is then logged, and the walk goes on into
\* the directory.  When the directory cannot be read WalkDir calls the
\* callback again with the error, the callback returns nil, and the walk
\* goes on with what follows the directory.
WalkVisit(o, addOk, readOk) ==
    /\ tree.pc = "walk"
    /\ tree.todo # <<>>
    /\ LET path == Head(tree.todo)
           rest == Tail(tree.todo)
           offline == path # tree.walkRoot
                      /\ (Base(path) \in skipDirs \/ HasPrefix(Base(path), <<".">>))
           asks == ~isGitPath(path) /\ path # tree.walkRoot /\ ~offline
           ignored == asks /\ gitIgnored(tree.dir, path, o)
           adds == ~isGitPath(path) /\ ~offline /\ ~ignored
           faults == (IF asks /\ Failed(o) THEN 1 ELSE 0)
                     + (IF adds /\ ~addOk THEN 1 ELSE 0)
                     + (IF adds /\ ~readOk THEN 1 ELSE 0)
       IN /\ asks \/ o = "answer"
          /\ adds \/ (addOk /\ readOk)
          /\ tree.nfault + faults <= MaxFaults
          /\ tree' = [tree EXCEPT
                 !.nfault = @ + faults,
                 !.todo = IF adds /\ readOk
                          THEN ChildSeq(tree.disk, path) \o rest ELSE rest,
                 !.watched = IF adds /\ addOk THEN @ \cup {path} ELSE @,
                 !.query = IF asks THEN QueryOf(tree.dir, path, o) ELSE @,
                 !.upset = @ \/ (asks /\ Failed(o))
                             \/ (adds /\ ~(addOk /\ readOk)),
                 !.addFailed = IF adds /\ ~addOk THEN @ \cup {path} ELSE @,
                 !.unread = IF adds /\ ~readOk THEN @ \cup {path} ELSE @,
                 !.foul = @ \/ (asks /\ Failed(o)),
                 !.walked = <<>>]
    /\ UNCHANGED <<watcherVars, ws, parser, lk>>

\* The walk returns: Subscribe goes on and starts run(), or run() goes on
\* to the debounce timer, which it stops and starts again.
WalkEnd ==
    /\ tree.pc = "walk"
    /\ tree.todo = <<>>
    /\ tree' = IF tree.initial
               THEN [tree EXCEPT !.pc = "loop", !.initial = FALSE,
                                 !.upset = FALSE,
                                 !.walked = IF tree.upset THEN <<>>
                                            ELSE <<tree.walkRoot>>]
               ELSE [tree EXCEPT !.pc = "loop", !.timer = "armed",
                                 !.armedBy = <<[name |-> tree.event.name,
                                                clean |-> ~tree.upset]>>,
                                 !.walked = IF tree.upset THEN <<>>
                                            ELSE <<tree.walkRoot>>]
    /\ UNCHANGED <<watcherVars, ws, parser, lk>>

\* A run() that starts the debounce timer before it registers a created
\* directory.
LoopReceiveTimerFirst(o1, o2) ==
    /\ tree.pc = "loop"
    /\ tree.events # <<>>
    /\ LET ev == Head(tree.events)
           asks1 == ~isGitPath(ev.name)
           drops == isGitPath(ev.name) \/ gitIgnored(tree.dir, ev.name, o1)
           isDir == ev.create /\ ev.name \in tree.disk
           asks2 == ~drops /\ isDir /\ Base(ev.name) \notin skipDirs
           walks == asks2 /\ ~gitIgnored(tree.dir, ev.name, o2)
           upset == (asks1 /\ Failed(o1)) \/ (asks2 /\ Failed(o2))
           query == IF asks2 THEN QueryOf(tree.dir, ev.name, o2)
                    ELSE IF asks1 THEN QueryOf(tree.dir, ev.name, o1)
                    ELSE tree.query
           faults == (IF asks1 /\ Failed(o1) THEN 1 ELSE 0)
                     + (IF asks2 /\ Failed(o2) THEN 1 ELSE 0)
           taken == [tree EXCEPT !.events = Tail(@), !.event = ev,
                                 !.query = query, !.upset = upset,
                                 !.walked = <<>>, !.nfault = @ + faults]
       IN /\ asks1 \/ o1 = "answer"
          /\ asks2 \/ o2 = "answer"
          /\ tree.nfault + faults <= MaxFaults
          /\ tree' = IF drops THEN taken
                     ELSE IF walks
                     THEN [taken EXCEPT !.pc = "walk", !.todo = <<ev.name>>,
                                        !.walkRoot = ev.name,
                                        !.timer = "armed",
                                        !.armedBy = <<[name |-> ev.name,
                                                       clean |-> ~upset]>>,
                                        !.addFailed = {}, !.unread = {},
                                        !.foul = upset]
                     ELSE [taken EXCEPT !.timer = "armed",
                                        !.armedBy = <<[name |-> ev.name,
                                                       clean |-> ~upset]>>]
    /\ UNCHANGED <<watcherVars, ws, parser, lk>>

\* run() takes an event from w.Events: it drops one whose path has a .git
\* component or is ignored by git; for a created directory that is not in
\* skipDirs and not ignored it calls addRecursive; then it starts the
\* debounce timer again.  o1 and o2 are the outcomes of its two queries.
LoopReceive(o1, o2) ==
    /\ tree.pc = "loop"
    /\ tree.events # <<>>
    /\ LET ev == Head(tree.events)
           asks1 == ~isGitPath(ev.name)
           drops == isGitPath(ev.name) \/ gitIgnored(tree.dir, ev.name, o1)
           isDir == ev.create /\ ev.name \in tree.disk
           asks2 == ~drops /\ isDir /\ Base(ev.name) \notin skipDirs
           walks == asks2 /\ ~gitIgnored(tree.dir, ev.name, o2)
           upset == (asks1 /\ Failed(o1)) \/ (asks2 /\ Failed(o2))
           query == IF asks2 THEN QueryOf(tree.dir, ev.name, o2)
                    ELSE IF asks1 THEN QueryOf(tree.dir, ev.name, o1)
                    ELSE tree.query
           faults == (IF asks1 /\ Failed(o1) THEN 1 ELSE 0)
                     + (IF asks2 /\ Failed(o2) THEN 1 ELSE 0)
           taken == [tree EXCEPT !.events = Tail(@), !.event = ev,
                                 !.query = query, !.upset = upset,
                                 !.walked = <<>>, !.nfault = @ + faults]
       IN /\ asks1 \/ o1 = "answer"
          /\ asks2 \/ o2 = "answer"
          /\ tree.nfault + faults <= MaxFaults
          /\ tree' = IF drops THEN taken
                     ELSE IF walks
                     THEN [taken EXCEPT !.pc = "walk", !.todo = <<ev.name>>,
                                        !.walkRoot = ev.name,
                                        !.addFailed = {}, !.unread = {},
                                        !.foul = upset]
                     ELSE [taken EXCEPT !.timer = "armed",
                                        !.armedBy = <<[name |-> ev.name,
                                                       clean |-> ~upset]>>]
    /\ UNCHANGED <<watcherVars, ws, parser, lk>>

\* The debounce timer fires and its callback signals the subscribers.
TimerFire ==
    /\ tree.timer = "armed"
    /\ tree' = [tree EXCEPT !.timer = "nil", !.signalBy = tree.armedBy,
                            !.paid = @ \cup tree.owed, !.owed = {},
                            !.walked = <<>>]
    /\ UNCHANGED <<watcherVars, ws, parser, lk>>

\* Some process makes the directory path, with the directory s in it when
\* deep; a watched parent reports the creation of path.
CreateDir(path, deep) ==
    /\ tree.pc \in {"walk", "loop"}
    /\ tree.nev < MaxChanges
    /\ path \in DirUniverse \ tree.disk
    /\ Parent(path) \in tree.disk
    /\ deep => Append(path, NmSrc) \in DirUniverse
    /\ tree' = [tree EXCEPT
           !.disk = @ \cup {path} \cup (IF deep THEN {Append(path, NmSrc)} ELSE {}),
           !.events = IF Parent(path) \in tree.watched
                      THEN Append(@, [name |-> path, create |-> TRUE]) ELSE @,
           !.upset = @ \/ tree.pc = "walk",
           !.foul = @ \/ tree.pc = "walk",
           !.made = IF Parent(path) \in tree.watched THEN @ \cup {path} ELSE @,
           !.walked = <<>>,
           !.nev = @ + 1]
    /\ UNCHANGED <<watcherVars, ws, parser, lk>>

\* IgnorePolicy.shouldSkip for the watch root Root with a query that
\* answers: a .git component, below the root a base name that begins with
\* "." or is in the exclusion set, or a path the repository ignores.
shouldSkip(path) ==
    \/ isGitPath(path)
    \/ path # Root /\ HasPrefix(Base(path), <<".">>)
    \/ path # Root /\ Base(path) \in skipDirs
    \/ RepoIgnores(path)

\* path is dir or below it.
IsUnder(dir, path) ==
    Len(path) >= Len(dir) /\ SubSeq(path, 1, Len(dir)) = dir

\* The change of the file name in the directory d is one that a signal has
\* to follow: the creation of d, or of a directory d is in, was reported to
\* run(), and neither the file nor a directory it is in is skipped.
Owes(d, name) ==
    /\ \E m \in tree.made : IsUnder(m, d)
    /\ \A k \in 1..(Len(d) + 1) : ~shouldSkip(SubSeq(Append(d, name), 1, k))

\* Some process creates the file a or writes the hidden file .e in a
\* watched directory.
FileEvent(d, name) ==
    /\ tree.pc \in {"walk", "loop"}
    /\ tree.nev < MaxChanges
    /\ d \in tree.watched
    /\ tree' = [tree EXCEPT
           !.events = Append(@, [name |-> Append(d, name),
                                 create |-> (name = NmFile)]),
           !.owed = IF Owes(d, name) THEN @ \cup {Append(d, name)} ELSE @,
           !.walked = <<>>,
           !.nev = @ + 1]
    /\ UNCHANGED <<watcherVars, ws, parser, lk>>

\* Some process creates the file a in a directory that is not watched: no
\* event is sent.
QuietChange(d) ==
    /\ tree.pc \in {"walk", "loop"}
    /\ tree.nev < MaxChanges
    /\ d \in tree.disk \ tree.watched
    /\ tree' = [tree EXCEPT
           !.owed = IF Owes(d, NmFile) THEN @ \cup {Append(d, NmFile)} ELSE @,
           !.walked = <<>>,
           !.nev = @ + 1]
    /\ UNCHANGED <<watcherVars, ws, parser, lk>>

NextWalk ==
    \/ GitIgnoredCall
    \/ \E o \in Outcomes, addOk \in BOOLEAN, readOk \in BOOLEAN :
           WalkVisit(o, addOk, readOk)
    \/ WalkEnd
    \/ \E o1 \in Outcomes, o2 \in Outcomes : LoopReceive(o1, o2)
    \/ TimerFire
    \/ \E q \in DirUniverse, deep \in BOOLEAN : CreateDir(q, deep)
    \/ \E d \in DirUniverse, name \in {NmFile, NmDotFile} : FileEvent(d, name)
    \/ \E d \in DirUniverse : QuietChange(d)

SpecWalk == InitWalk /\ [][NextWalk]_vars

\* The same with every query answered, every registration done and every
\* directory read.
NextWalkClean ==
    \/ GitIgnoredCall
    \/ WalkVisit("answer", TRUE, TRUE)
    \/ WalkEnd
    \/ LoopReceive("answer", "answer")
    \/ TimerFire
    \/ \E q \in DirUniverse, deep \in BOOLEAN : CreateDir(q, deep)
    \/ \E d \in DirUniverse, name \in {NmFile, NmDotFile} : FileEvent(d, name)
    \/ \E d \in DirUniverse : QuietChange(d)

\* run() and the walk it calls go on when they can, and an armed timer
\* fires; the processes that change the disk are obliged to nothing.
SpecWalkFair ==
    /\ InitWalk
    /\ [][NextWalkClean]_vars
    /\ WF_vars(LoopReceive("answer", "answer"))
    /\ WF_vars(WalkVisit("answer", TRUE, TRUE))
    /\ WF_vars(WalkEnd)
    /\ WF_vars(TimerFire)

\* ------------------------------------------------- the locks of the Manager
\* Subscribe, the release function, removeEntry and the debounce callback
\* once more, with every Lock() and Unlock() a step of its own: lk holds the
\* two kinds of mutex, Manager.mu and each watchEntry.mu, and the goroutines
\* that wait for them.  Lock() is passed when nobody holds the mutex.

\* Some caller calls Subscribe(d, debounce) and comes to m.mu.Lock().
LkSubscribe(p, d) ==
    /\ lk.pc[p] = "idle"
    /\ lk.calls < MaxCalls
    /\ lk' = [lk EXCEPT !.pc[p] = "S_wantM", !.dir[p] = d, !.calls = @ + 1]
    /\ UNCHANGED <<watcherVars, ws, parser, tree>>

\* m.mu.Lock() returns; entry, ok := m.entries[dir].
LkSubscribeAcquire(p) ==
    /\ lk.pc[p] = "S_wantM"
    /\ lk.mu = Nobody
    /\ LET found == lk.ent[lk.dir[p]]
       IN lk' = [lk EXCEPT !.mu = Caller(p), !.e[p] = found,
                           !.pc[p] = IF found # NoEntry THEN "S_unlockM"
                                     ELSE "S_new"]
    /\ UNCHANGED <<watcherVars, ws, parser, tree>>

\* A Subscribe that returns the error of NewWatcher with Manager.mu locked.
LkNewWatcherNoUnlock(p, ok) ==
    /\ lk.pc[p] = "S_new"
    /\ ok => lk.n < MaxEntries
    /\ lk' = IF ok
             THEN [lk EXCEPT !.pc[p] = "S_walk", !.nq[p] = 0]
             ELSE [lk EXCEPT !.pc[p] = "idle", !.dir[p] = NoDir]
    /\ UNCHANGED <<watcherVars, ws, parser, tree>>

\* w, err := fsnotify.NewWatcher(): on an error m.mu.Unlock() and return,
\* else addRecursive(w, dir, dir) begins.
LkNewWatcher(p, ok) ==
    /\ lk.pc[p] = "S_new"
    /\ ok => lk.n < MaxEntries
    /\ lk' = IF ok
             THEN [lk EXCEPT !.pc[p] = "S_walk", !.nq[p] = 0]
             ELSE [lk EXCEPT !.mu = Nobody, !.pc[p] = "idle", !.dir[p] = NoDir]
    /\ UNCHANGED <<watcherVars, ws, parser, tree>>

\* The walk comes to a directory below the root that no offline rule skips
\* and calls gitIgnored, which starts git check-ignore and waits for it.
LkWalkQuery(p) ==
    /\ lk.pc[p] = "S_walk"
    /\ lk.nq[p] < MaxDirs
    /\ lk' = [lk EXCEPT !.pc[p] = "S_query", !.nq[p] = @ + 1]
    /\ UNCHANGED <<watcherVars, ws, parser, tree>>

\* cmd.Run() returns.
LkQueryReturn(p) ==
    /\ lk.pc[p] = "S_query"
    /\ lk' = [lk EXCEPT !.pc[p] = "S_walk"]
    /\ UNCHANGED <<watcherVars, ws, parser, tree>>

\* addRecursive returns; the entry is built and put into m.entries and
\* go entry.run().
LkWalkEnd(p) ==
    /\ lk.pc[p] = "S_walk"
    /\ LET new == lk.n + 1
       IN lk' = [lk EXCEPT !.n = new, !.ent[lk.dir[p]] = new, !.e[p] = new,
                           !.open[new] = TRUE, !.edir[new] = lk.dir[p],
                           !.nq[p] = 0, !.pc[p] = "S_unlockM"]
    /\ UNCHANGED <<watcherVars, ws, parser, tree>>

\* m.mu.Unlock(); the caller comes to entry.mu.Lock().
LkSubscribeUnlock(p) ==
    /\ lk.pc[p] = "S_unlockM"
    /\ lk' = [lk EXCEPT !.mu = Nobody, !.pc[p] = "S_wantE"]
    /\ UNCHANGED <<watcherVars, ws, parser, tree>>

\* entry.mu.Lock() returns.
LkSubscribeAcquireE(p) ==
    /\ lk.pc[p] = "S_wantE"
    /\ lk.emu[lk.e[p]] = Nobody
    /\ lk' = [lk EXCEPT !.emu[lk.e[p]] = Caller(p), !.pc[p] = "S_reg"]
    /\ UNCHANGED <<watcherVars, ws, parser, tree>>

\* The stopTimer is stopped, the id taken, the channel registered;
\* entry.mu.Unlock() and return.
LkSubscribeRegister(p) ==
    /\ lk.pc[p] = "S_reg"
    /\ LET e == lk.e[p]
       IN lk' = [lk EXCEPT !.stop[e] = "nil", !.id[p] = lk.nid[e],
                           !.nid[e] = @ + 1, !.subs[e] = @ \cup {lk.nid[e]},
                           !.emu[e] = Nobody, !.e[p] = NoEntry,
                           !.pc[p] = "subscribed"]
    /\ UNCHANGED <<watcherVars, ws, parser, tree>>

\* The release function is called: unsubscribe(dir, id) comes to
\* m.mu.Lock().
LkUnsubscribe(p) ==
    /\ lk.pc[p] = "subscribed"
    /\ lk' = [lk EXCEPT !.pc[p] = "U_wantM"]
    /\ UNCHANGED <<watcherVars, ws, parser, tree>>

\* m.mu.Lock() returns; entry, ok := m.entries[dir].
LkUnsubscribeAcquire(p) ==
    /\ lk.pc[p] = "U_wantM"
    /\ lk.mu = Nobody
    /\ lk' = [lk EXCEPT !.mu = Caller(p), !.e[p] = lk.ent[lk.dir[p]],
                        !.pc[p] = "U_unlockM"]
    /\ UNCHANGED <<watcherVars, ws, parser, tree>>

\* m.mu.Unlock(); return when there was no entry, else on to
\* entry.mu.Lock().
LkUnsubscribeUnlock(p) ==
    /\ lk.pc[p] = "U_unlockM"
    /\ lk' = IF lk.e[p] = NoEntry
             THEN [lk EXCEPT !.mu = Nobody, !.pc[p] = "idle",
                             !.dir[p] = NoDir, !.id[p] = NoSub]
             ELSE [lk EXCEPT !.mu = Nobody, !.pc[p] = "U_wantE"]
    /\ UNCHANGED <<watcherVars, ws, parser, tree>>

\* entry.mu.Lock() returns.
LkUnsubscribeAcquireE(p) ==
    /\ lk.pc[p] = "U_wantE"
    /\ lk.emu[lk.e[p]] = Nobody
    /\ lk' = [lk EXCEPT !.emu[lk.e[p]] = Caller(p), !.pc[p] = "U_del"]
    /\ UNCHANGED <<watcherVars, ws, parser, tree>>

\* delete(entry.subs, subID), the grace timer is started when no subscriber
\* is left and none is set; entry.mu.Unlock() and return.
LkUnsubscribeDelete(p) ==
    /\ lk.pc[p] = "U_del"
    /\ LET e == lk.e[p]
           left == lk.subs[e] \ {lk.id[p]}
       IN lk' = [lk EXCEPT !.subs[e] = left,
                           !.stop[e] = armStopTimer(left, @),
                           !.emu[e] = Nobody, !.e[p] = NoEntry,
                           !.pc[p] = "idle", !.dir[p] = NoDir,
                           !.id[p] = NoSub]
    /\ UNCHANGED <<watcherVars, ws, parser, tree>>

\* The grace timer fires: its callback, removeEntry(dir), starts in a
\* goroutine of its own and comes to m.mu.Lock().
LkGraceFire(e) ==
    /\ lk.stop[e] = "armed"
    /\ lk' = [lk EXCEPT !.stop[e] = "fired", !.rmWant[lk.edir[e]] = @ + 1]
    /\ UNCHANGED <<watcherVars, ws, parser, tree>>

\* removeEntry: m.mu.Lock() returns.
LkRemoveAcquire(d) ==
    /\ lk.rmWant[d] > 0
    /\ lk.mu = Nobody
    /\ lk' = [lk EXCEPT !.mu = Remover(d), !.rmWant[d] = @ - 1]
    /\ UNCHANGED <<watcherVars, ws, parser, tree>>

\* removeEntry: the entry is deleted from the map when it is there;
\* m.mu.Unlock().
LkRemoveDelete(d) ==
    /\ lk.mu = Remover(d)
    /\ lk' = IF lk.ent[d] # NoEntry
             THEN [lk EXCEPT !.mu = Nobody, !.ent[d] = NoEntry,
                             !.closing = @ \cup {lk.ent[d]}]
             ELSE [lk EXCEPT !.mu = Nobody]
    /\ UNCHANGED <<watcherVars, ws, parser, tree>>

\* removeEntry: entry.close().
LkRemoveClose(e) ==
    /\ e \in lk.closing
    /\ lk' = [lk EXCEPT !.closing = @ \ {e}, !.open[e] = FALSE]
    /\ UNCHANGED <<watcherVars, ws, parser, tree>>

\* run() has taken an event that qualifies and started its debounce timer,
\* under the mutex of its own that no other goroutine takes; the timer
\* fires and its callback comes to e.mu.Lock().
LkDebounceFire(e) ==
    /\ lk.open[e]
    /\ lk.cbWant[e] < MaxCallbacks
    /\ lk' = [lk EXCEPT !.cbWant[e] = @ + 1]
    /\ UNCHANGED <<watcherVars, ws, parser, tree>>

\* The callback: e.mu.Lock() returns.
LkCallbackAcquire(e) ==
    /\ lk.cbWant[e] > 0
    /\ lk.emu[e] = Nobody
    /\ lk' = [lk EXCEPT !.emu[e] = Callback(e), !.cbWant[e] = @ - 1]
    /\ UNCHANGED <<watcherVars, ws, parser, tree>>

\* The callback: one send that does not wait to every channel in e.subs;
\* e.mu.Unlock().
LkCallbackSend(e) ==
    /\ lk.emu[e] = Callback(e)
    /\ lk' = [lk EXCEPT !.emu[e] = Nobody]
    /\ UNCHANGED <<watcherVars, ws, parser, tree>>

NextLock ==
    \/ \E p \in Callers, d \in Dirs : LkSubscribe(p, d)
    \/ \E p \in Callers : LkSubscribeAcquire(p)
    \/ \E p \in Callers, ok \in BOOLEAN : LkNewWatcher(p, ok)
    \/ \E p \in Callers : LkWalkQuery(p)
    \/ \E p \in Callers : LkQueryReturn(p)
    \/ \E p \in Callers : LkWalkEnd(p)
    \/ \E p \in Callers : LkSubscribeUnlock(p)
    \/ \E p \in Callers : LkSubscribeAcquireE(p)
    \/ \E p \in Callers : LkSubscribeRegister(p)
    \/ \E p \in Callers : LkUnsubscribe(p)
    \/ \E p \in Callers : LkUnsubscribeAcquire(p)
    \/ \E p \in Callers : LkUnsubscribeUnlock(p)
    \/ \E p \in Callers : LkUnsubscribeAcquireE(p)
    \/ \E p \in Callers : LkUnsubscribeDelete(p)
    \/ \E e \in EntryIds : LkGraceFire(e)
    \/ \E d \in Dirs : LkRemoveAcquire(d)
    \/ \E d \in Dirs : LkRemoveDelete(d)
    \/ \E e \in EntryIds : LkRemoveClose(e)
    \/ \E e \in EntryIds : LkDebounceFire(e)
    \/ \E e \in EntryIds : LkCallbackAcquire(e)
    \/ \E e \in EntryIds : LkCallbackSend(e)

SpecLock == Init /\ [][NextLock]_vars

\* Of the callers and removeEntry goroutines that hold a mutex one goes on,
\* the command a query started ends, and one of those that wait in Lock()
\* for a mutex that is free again and again gets it; the same for the
\* debounce callbacks of each entry.  Each follows when every goroutine
\* goes on when it can and sync.Mutex hands the mutex over to a goroutine
\* that has waited for it (as it does after a millisecond).  Callers,
\* events and timers are obliged to nothing.
SpecLockFair ==
    /\ SpecLock
    /\ SF_vars(\E p \in Callers :
                   \/ LkSubscribeAcquire(p) \/ LkSubscribeAcquireE(p)
                   \/ LkUnsubscribeAcquire(p) \/ LkUnsubscribeAcquireE(p))
    /\ WF_vars(\E p \in Callers :
                   \/ \E ok \in BOOLEAN : LkNewWatcher(p, ok)
                   \/ LkWalkQuery(p) \/ LkWalkEnd(p) \/ LkQueryReturn(p)
                   \/ LkSubscribeUnlock(p) \/ LkSubscribeRegister(p)
                   \/ LkUnsubscribeUnlock(p) \/ LkUnsubscribeDelete(p))
    /\ SF_vars(\E d \in Dirs : LkRemoveAcquire(d))
    /\ WF_vars(\E d \in Dirs : LkRemoveDelete(d))
    /\ \A e \in EntryIds :
        SF_vars(LkCallbackAcquire(e)) /\ WF_vars(LkCallbackSend(e))

\* ------------------------------------------------------------- claims

\* The watchers created for d and not yet closed.
OpenWatches(d) == {e \in Allocated : edir[e] = d /\ watch[e] = "open"}

\* The callers that hold a subscription Subscribe returned and whose release
\* function has not returned.
Holders == {p \in Callers : pc[p] \in {"subscribed", "unsubscribe_entry"}}

\* Caller p completes Subscribe in this step.
Registers(p) == pc[p] = "Subscribe_entry" /\ pc'[p] = "subscribed"

\* Caller p's release function returns in this step.
Releases(p) == p \in Holders /\ pc'[p] = "idle"

\* C1: in every reachable state at most one watcher that was created and is
\* not yet closed exists for each directory.
C1_AtMostOneWatch == \A d \in Dirs : Cardinality(OpenWatches(d)) <= 1

\* C2: a Subscribe that registers while the entry's grace timer is armed and
\* has not fired cancels the timer, allocates no watcher and attaches the
\* subscriber to the existing entry, which is in the map with its watch open;
\* a Subscribe that finds no entry for the directory allocates a new entry
\* with a new open watch.
C2_ResubscribeStep ==
    /\ \A p \in Callers :
         (Registers(p) /\ stopTimer[centry[p]] = "armed") =>
            /\ stopTimer'[centry[p]] = "nil"
            /\ nAlloc' = nAlloc
            /\ reg'[p] = centry[p]
            /\ cid'[p] \in subs'[centry[p]]
            /\ entries'[cdir[p]] = centry[p]
            /\ watch'[centry[p]] = "open"
    /\ \A p \in Callers :
         (pc[p] = "idle" /\ pc'[p] = "Subscribe_entry" /\ entries[cdir'[p]] = NoEntry) =>
            /\ nAlloc' = nAlloc + 1
            /\ entries'[cdir'[p]] = nAlloc'
            /\ centry'[p] = nAlloc'
            /\ watch[nAlloc'] = "none" /\ watch'[nAlloc'] = "open"

C2_Resubscribe == [][C2_ResubscribeStep]_vars

\* C3: an entry leaves the manager's map, and its watch is closed, only
\* while its subscriber set is empty.
C3_RemovedOnlyWhenEmptyStep ==
    \A e \in Allocated :
        /\ (entries[edir[e]] = e /\ entries'[edir[e]] # e) => subs[e] = {}
        /\ (watch[e] = "open" /\ watch'[e] = "closed") => subs[e] = {}

C3_RemovedOnlyWhenEmpty == [][C3_RemovedOnlyWhenEmptyStep]_vars

\* C4: when Subscribe returns, the subscription is registered on the entry
\* that is in the map for its directory and whose watch is open.
C4_SubscribeOnLiveEntryStep ==
    \A p \in Callers :
        Registers(p) =>
            /\ entries'[cdir'[p]] = reg'[p]
            /\ watch'[reg'[p]] = "open"

C4_SubscribeOnLiveEntry == [][C4_SubscribeOnLiveEntryStep]_vars

\* The debounce callback of entry e runs in this step.
Delivers(e) == timers'[e] < timers[e]

\* C5 as stated: when the debounce timer of a burst fires, every subscriber
\* registered in the entry is delivered exactly one signal for the burst.
C5_ExactlyOnePerBurst ==
    last.op = "deliver" => last.sent = subs[last.e]

\* C5 as amended: the events of a burst leave at most one debounce timer
\* armed, and its firing sends at most one signal to each registered
\* subscriber: exactly one to a subscriber whose sink is empty, none to one
\* whose sink still holds an undelivered signal, so that its sink holds one
\* signal afterwards; no timer of the burst is left to fire again.
C5_OneAttemptPerBurstStep ==
    \A e \in EntryIds :
        Delivers(e) =>
            /\ timers'[e] = 0
            /\ \A id \in subs[e] :
                  /\ sink'[e][id] - sink[e][id] = (IF sink[e][id] = 0 THEN 1 ELSE 0)
                  /\ sink'[e][id] = 1

C5_OneAttemptPerBurst ==
    /\ [](\A e \in EntryIds : timers[e] <= 1)
    /\ [][C5_OneAttemptPerBurstStep]_vars

\* A burst of at least two events has been delivered, as one signal, to a
\* subscriber.
C5_Witness ==
    /\ last.op = "deliver"
    /\ last.n >= 2
    /\ last.sent # {}

\* C6: when the debounce timer of the entry that watches directory d fires,
\* every subscription for d that Subscribe returned and that is not released
\* has a signal in its sink afterwards.
C6_EveryHolderSignalledStep ==
    \A e \in Allocated :
        (Delivers(e) /\ entries[edir[e]] = e) =>
            \A p \in Holders :
                cdir[p] = edir[e] => sink'[reg[p]][cid[p]] >= 1

C6_EveryHolderSignalled == [][C6_EveryHolderSignalledStep]_vars

\* C7: a sink never holds more than one undelivered signal; the debounce
\* callback can always run, whatever the sinks hold; and when it has run
\* every registered subscriber's sink holds a signal, the full ones having
\* dropped the new signal.
C7_AtMostOnePending ==
    /\ \A e \in EntryIds, id \in SubIds : sink[e][id] <= 1
    /\ \A e \in EntryIds : timers[e] > 0 => ENABLED DebounceFire(e)
    /\ last.op = "deliver" =>
          /\ \A id \in last.dropped : sink[last.e][id] = ChanCap
          /\ subs[last.e] \ last.dropped = last.sent

\* A debounce callback found one sink full, dropped the signal for it, and
\* delivered to another subscriber.
C7_Witness ==
    /\ last.op = "deliver"
    /\ last.dropped # {}
    /\ last.sent # {}

\* C8: when a release function returns, its subscriber is no longer in the
\* subscriber set of the entry it was registered in, and if that set is empty
\* the entry's grace timer is armed.
C8_ReleaseRemovesStep ==
    \A p \in Callers :
        Releases(p) =>
            /\ cid[p] \notin subs'[reg[p]]
            /\ subs'[reg[p]] = {} => stopTimer'[reg[p]] = "armed"

C8_ReleaseRemoves == [][C8_ReleaseRemovesStep]_vars

\* C9: no signal is sent to a sink after its release function has returned.
C9_NoSignalAfterReleaseStep ==
    \A e \in Allocated, id \in SubIds :
        (id < nextID[e] /\ \A p \in Holders : ~(reg[p] = e /\ cid[p] = id))
            => sink'[e][id] <= sink[e][id]

C9_NoSignalAfterRelease == [][C9_NoSignalAfterReleaseStep]_vars


\* The state of entry e in the state machine of the specification.  An entry
\* that the first Subscribe has inserted and not yet registered in is not
\* yet observable and counts as absent.
InMap(e) == e \in Allocated /\ entries[edir[e]] = e

EntryState(e) ==
    IF ~InMap(e) THEN "absent"
    ELSE IF subs[e] # {} /\ stopTimer[e] = "nil" THEN "active"
    ELSE IF subs[e] = {} /\ stopTimer[e] # "nil" THEN "draining"
    ELSE IF subs[e] = {} /\ nextID[e] = 0 THEN "absent"
    ELSE "neither"

EntryTransitions ==
    {<<"absent", "active">>, <<"active", "draining">>,
     <<"draining", "active">>, <<"draining", "absent">>}

\* C10: an entry in the map is active or draining, and its state changes
\* only from absent to active, from active to draining, from draining to
\* active and from draining to absent.
C10_StateMachineStep ==
    \A e \in EntryIds :
        /\ EntryState(e) # "neither"
        /\ \/ EntryState(e)' = EntryState(e)
           \/ <<EntryState(e), EntryState(e)'>> \in EntryTransitions

C10_StateMachine == [][C10_StateMachineStep]_vars


\* C11: an entry's stopTimer is set only while its subscriber set is empty:
\* a Subscribe that registers leaves the entry's stopTimer nil, and a timer
\* becomes armed only in the step of a release that empties the set.
C11_TimerOnlyWhenEmptyStep ==
    /\ \A p \in Callers : Registers(p) => stopTimer'[centry[p]] = "nil"
    /\ \A e \in EntryIds :
          (stopTimer[e] # "armed" /\ stopTimer'[e] = "armed") =>
              \E p \in Callers : /\ pc[p] = "unsubscribe_entry"
                                 /\ centry[p] = e
                                 /\ Releases(p)
                                 /\ subs'[e] = {}

C11_TimerOnlyWhenEmpty ==
    /\ [](\A e \in EntryIds : stopTimer[e] # "nil" => subs[e] = {})
    /\ [][C11_TimerOnlyWhenEmptyStep]_vars

\* An entry that handed out every id, lost all its subscribers and has its
\* grace timer armed while a caller is about to register on it.
C11_Witness ==
    \E e \in EntryIds, p \in Callers :
        /\ stopTimer[e] = "armed"
        /\ subs[e] = {}
        /\ nextID[e] >= 1
        /\ pc[p] = "Subscribe_entry"
        /\ centry[p] = e

\* C13: a Subscribe whose watcher allocation fails changes nothing: the
\* directory still has no entry, no watcher and no entry were allocated, no
\* subscriber was registered and the caller holds no subscription.
C13_FailedSubscribeStep ==
    last'.op = "fail" =>
        /\ entries'[last'.dir] = NoEntry
        /\ UNCHANGED <<managerVars, entryVars, runVars, sink, callerVars>>
        /\ Holders' = Holders

C13_FailedSubscribe == [][C13_FailedSubscribeStep]_vars

\* A failed Subscribe for one directory while the manager holds a live
\* entry with a subscriber for another.
C13_Witness ==
    /\ last.op = "fail"
    /\ \E e \in EntryIds : InMap(e) /\ subs[e] # {} /\ edir[e] # last.dir


\* The steps of Subscribe, unsubscribe, the grace timer and removeEntry.
\* run() and the debounce callback are left out: they write timers, burst,
\* sink and last only, and no guard of the steps below reads any of these.
Lifecycle ==
    \/ \E p \in Callers, d \in Dirs : SubscribeFound(p, d)
    \/ \E p \in Callers, d \in Dirs : SubscribeCreate(p, d)
    \/ \E p \in Callers, d \in Dirs : SubscribeFail(p, d)
    \/ \E p \in Callers : SubscribeRegister(p)
    \/ \E p \in Callers : UnsubscribeMissing(p)
    \/ \E p \in Callers : UnsubscribeFound(p)
    \/ \E p \in Callers : UnsubscribeDelete(p)
    \/ \E e \in EntryIds : GraceFire(e)
    \/ \E d \in Dirs : RemoveEntryDelete(d)
    \/ \E e \in EntryIds : RemoveEntryClose(e)

\* The runtime runs a timer that is due and schedules every goroutine that
\* can take a step: the grace timer's firing and the two halves of removeEntry
\* are weakly fair.  Callers are free never to call Subscribe or release.
SpecFair ==
    /\ Init
    /\ [][Lifecycle]_vars
    /\ \A e \in EntryIds : WF_vars(GraceFire(e))
    /\ \A d \in Dirs : WF_vars(RemoveEntryDelete(d))
    /\ \A e \in EntryIds : WF_vars(RemoveEntryClose(e))

\* A Subscribe for d has passed the map and has not yet registered.
SubscribeArrived(d) == \E p \in Callers : pc[p] = "Subscribe_entry" /\ cdir[p] = d

\* The last subscriber of the entry in the map released: the grace timer is
\* armed and no Subscribe for the directory is under way.
Drained(e) ==
    /\ InMap(e)
    /\ subs[e] = {}
    /\ stopTimer[e] = "armed"
    /\ ~SubscribeArrived(edir[e])

\* The entry is out of the map and its watcher is closed.
Gone(e) == ~InMap(e) /\ watch[e] = "closed"

\* C12: once the last subscriber of a directory has released, the entry is
\* eventually removed from the map and its watcher closed, unless a Subscribe
\* for the directory arrives first.
C12_EventuallyRemoved ==
    \A e \in EntryIds :
        Drained(e) ~> (Gone(e) \/ (e \in Allocated /\ SubscribeArrived(edir[e])))

\* An entry that was drained, removed and closed.
C12_Witness ==
    \E e \in EntryIds : Gone(e) /\ subs[e] = {} /\ stopTimer[e] = "fired"


\* ------------------------------------------------ claims on the /ws handler

\* C14: every write to a connection is made by the handler goroutine: at most
\* one write is in progress, it is the handler's, and each step that begins
\* or ends a write is a step of the handler and not of the reader.
C14_SingleWriterStep ==
    \A c \in Conns :
        (\/ ws'[c].writers # ws[c].writers
         \/ ws'[c].errors # ws[c].errors
         \/ ws'[c].refreshes # ws[c].refreshes) =>
            /\ ws'[c].hpc # ws[c].hpc
            /\ ws'[c].rpc = ws[c].rpc
            /\ ws'[c].nread = ws[c].nread

C14_SingleWriter ==
    /\ [](\A c \in Conns : ws[c].writers \subseteq {"handler"})
    /\ [][C14_SingleWriterStep]_vars

\* The handler is writing a refresh while the reader goroutine, which has
\* read a client message already, is reading.
C14_Witness ==
    \E c \in Conns :
        /\ ws[c].writers = {"handler"}
        /\ ws[c].hpc = "writing"
        /\ ws[c].rpc = "reading"
        /\ ws[c].nread > 0

\* The handler has returned.
Terminated(c) == ws[c].hpc = "done"

\* The read failed, a write failed, or the context was cancelled.
Disconnected(c) ==
    \/ ws[c].rpc \in {"sending", "exited"}
    \/ ws[c].cause = "write"
    \/ ws[c].ctx = "done"

\* C15: on a connection whose subscription was set up, a read failure, a
\* write failure and a cancellation each make the handler return, and a
\* handler that has returned has called stopWatch exactly once; stopWatch is
\* never called twice.
C15_ReleasedOnce ==
    /\ [](\A c \in Conns :
            /\ ws[c].released <= 1
            /\ (Terminated(c) /\ ws[c].sub # "none") =>
                   (ws[c].released = 1 /\ ws[c].sub = "released"))
    /\ \A c \in Conns :
           (ws[c].sub = "registered" /\ Disconnected(c)) ~>
               (Terminated(c) /\ ws[c].released = 1)

\* A handler that returned because a write failed, after at least one
\* refresh was written, and called stopWatch once.
C15_Witness ==
    \E c \in Conns :
        /\ Terminated(c)
        /\ ws[c].cause = "write"
        /\ ws[c].refreshes >= 2
        /\ ws[c].released = 1

\* The server has stopped serving the connection.
Stopped(c) ==
    /\ Terminated(c)
    /\ ws[c].conn = "closed"
    /\ ws[c].sub = "released"

\* C16 as stated: once the server has read a client message it stops.
C16_MessageStops ==
    \A c \in Conns : (ws[c].nread > 0) ~> Stopped(c)

\* C16: a close by the client (or a frame that is not valid) makes the
\* server stop, while reading a well-formed client message changes nothing
\* but the count of messages read.
C16_MessageDroppedStep ==
    \A c \in Conns :
        ws'[c].nread > ws[c].nread =>
            ws' = [ws EXCEPT ![c] = [@ EXCEPT !.nread = @ + 1, !.inbox = @ - 1]]

C16_CloseStops ==
    /\ \A c \in Conns :
           (ws[c].rpc = "reading" /\ ws[c].peer = "closed") ~> Stopped(c)
    /\ [][C16_MessageDroppedStep]_vars

\* The server read a client message, kept serving, and stopped only when the
\* read failed.
C16_Witness ==
    \E c \in Conns :
        /\ ws[c].nread > 0
        /\ ws[c].refreshes > 0
        /\ ws[c].cause = "read"
        /\ Stopped(c)

\* The setup of the connection failed.
SetupFailed(c) ==
    \/ ws[c].hpc \in {"error", "error_writing", "error_close"}
    \/ ws[c].errors > 0

\* C17: a connection whose setup failed gets one error message and no
\* refresh, has no subscription and no reader goroutine, and the step of the
\* handler that follows the error write closes the connection and returns.
C17_SetupFailureStep ==
    \A c \in Conns :
        (ws[c].hpc = "error_close" /\ ws'[c].hpc # ws[c].hpc) =>
            (ws'[c].conn = "closed" /\ ws'[c].hpc = "done")

C17_SetupFailure ==
    /\ [](\A c \in Conns :
            /\ ws[c].errors <= 1
            /\ SetupFailed(c) =>
                  /\ ws[c].refreshes = 0
                  /\ ws[c].refreshCh = 0
                  /\ ws[c].sub = "none"
                  /\ ws[c].rpc = "none"
                  /\ ws[c].released = 0
            /\ (SetupFailed(c) /\ Terminated(c)) =>
                  (ws[c].errors = 1 /\ ws[c].conn = "closed")
            /\ ws[c].errors = 1 => ws[c].hpc \in {"error_close", "done"})
    /\ [][C17_SetupFailureStep]_vars

\* A connection closed after watcher.Watch failed: its context was made and
\* is cancelled, one error message was written.
C17_Witness ==
    \E c \in Conns :
        /\ Terminated(c)
        /\ ws[c].errors = 1
        /\ ws[c].ctx = "done"
        /\ ws[c].conn = "closed"


\* --------------------------------------------------- claims on git.Parse

\* Parse has returned.
ParseDone == parser.pc = "done"

Files == parser.result.files

RECURSIVE Sum(_)
Sum(s) == IF s = <<>> THEN 0 ELSE Head(s) + Sum(Tail(s))

\* C18: the result's additions is the sum of its files' additions, and its
\* deletions the sum of its files' deletions.
C18_TotalsAreSums ==
    ParseDone =>
        /\ parser.result.additions = Sum([k \in 1..Len(Files) |-> Files[k].additions])
        /\ parser.result.deletions = Sum([k \in 1..Len(Files) |-> Files[k].deletions])

\* Two files, added and removed lines counted.
C18_Witness ==
    /\ ParseDone
    /\ Len(Files) = 2
    /\ parser.result.additions > 0
    /\ parser.result.deletions > 0

\* The lines of type t in the hunks of file f, as (hunk, line) positions.
LinesOfType(f, t) ==
    UNION {{<<h, j>> : j \in {n \in 1..Len(f.hunks[h].lines) :
                                 f.hunks[h].lines[n].type = t}} :
           h \in 1..Len(f.hunks)}

\* C19: each file's additions is the number of add lines in its hunks and
\* its deletions the number of del lines.
C19_CountsMatchHunks ==
    ParseDone =>
        \A k \in 1..Len(Files) :
            /\ Files[k].additions = Cardinality(LinesOfType(Files[k], "add"))
            /\ Files[k].deletions = Cardinality(LinesOfType(Files[k], "del"))

\* A file with two hunks, the second open at the end of the input, and
\* counted lines in both.
C19_Witness ==
    /\ ParseDone
    /\ \E k \in 1..Len(Files) :
          /\ Len(Files[k].hunks) = 2
          /\ \A h \in 1..2 : Files[k].hunks[h].lines # <<>>
          /\ Files[k].additions + Files[k].deletions >= 2
          /\ LineType(parser.lines[Len(parser.lines)]) # "none"

\* The positions of the lines that begin with "diff --git ".
Markers == {k \in 1..Len(parser.lines) : HasPrefix(parser.lines[k], PfxDiffGit)}

\* The position of the n-th of them.
MarkerAt(n) == CHOOSE k \in Markers : Cardinality({j \in Markers : j <= k}) = n

\* The lines of the n-th file section: after its marker, up to the next
\* marker or the end of the input.
Section(n) ==
    SubSeq(parser.lines, MarkerAt(n) + 1,
           IF n < Cardinality(Markers) THEN MarkerAt(n + 1) - 1
           ELSE Len(parser.lines))

\* The positions in section sec of its hunk headers.
HunkMarks(sec) == {k \in 1..Len(sec) : HasPrefix(sec[k], PfxHunk)}

HunkMarkAt(sec, n) ==
    CHOOSE k \in HunkMarks(sec) : Cardinality({j \in HunkMarks(sec) : j <= k}) = n

\* The lines of section sec under its n-th hunk header.
HunkBody(sec, n) ==
    SubSeq(sec, HunkMarkAt(sec, n) + 1,
           IF n < Cardinality(HunkMarks(sec)) THEN HunkMarkAt(sec, n + 1) - 1
           ELSE Len(sec))

\* A line of a hunk body that Parse records.
IsRecorded(line) == LineType(line) # "none" /\ ~IsSkipped(line)

\* The Line records of the lines ls.
Recorded(ls) ==
    LET kept == SelectSeq(ls, IsRecorded)
    IN [k \in 1..Len(kept) |-> LineOf(kept[k])]

\* C20: the result has one file for every marker line, in the order of the
\* markers; the n-th file has one hunk for every hunk header of the n-th
\* section, in order, and each hunk holds the recorded lines found under its
\* header in that section.
C20_OneFilePerMarker ==
    ParseDone =>
        /\ Len(Files) = Cardinality(Markers)
        /\ \A n \in 1..Len(Files) :
              LET sec == Section(n)
                  hunks == Files[n].hunks
              IN /\ Len(hunks) = Cardinality(HunkMarks(sec))
                 /\ \A h \in 1..Len(hunks) :
                       /\ hunks[h].header = sec[HunkMarkAt(sec, h)]
                       /\ hunks[h].lines = Recorded(HunkBody(sec, h))

\* Two files whose sections differ: the first has a hunk with a line, open
\* when the second marker is read, the second has none.
C20_Witness ==
    /\ ParseDone
    /\ Len(Files) = 2
    /\ Files[1].hunks # <<>>
    /\ Files[1].hunks[Len(Files[1].hunks)].lines # <<>>
    /\ Files[2].hunks = <<>>
    /\ MarkerAt(1) > 1


\* The Line records of the lines ls that begin with +, - or a space.
Classified(ls) ==
    LET kept == SelectSeq(ls, LAMBDA l : LineType(l) # "none")
    IN [k \in 1..Len(kept) |-> LineOf(kept[k])]

\* The lines of type t among the lines under the hunk headers of section sec.
BodyLinesOfType(sec, t) ==
    UNION {{<<h, j>> : j \in {n \in 1..Len(HunkBody(sec, h)) :
                                 LineType(HunkBody(sec, h)[n]) = t}} :
           h \in 1..Cardinality(HunkMarks(sec))}

\* C21: every line under a hunk header that begins with +, - or a space is
\* in the hunk, in source order, with its type and its text without the first
\* character, and the file's counters count the + and the - lines.
C21_ClassifiedByFirstChar ==
    ParseDone =>
        \A n \in 1..Len(Files) :
            LET sec == Section(n)
            IN /\ \A h \in 1..Len(Files[n].hunks) :
                      Files[n].hunks[h].lines = Classified(HunkBody(sec, h))
               /\ Files[n].additions = Cardinality(BodyLinesOfType(sec, "add"))
               /\ Files[n].deletions = Cardinality(BodyLinesOfType(sec, "del"))

\* The names that stand in marker and rename lines.
Names == {<<"x">>, <<"p">>, <<"q">>} \cup RenameNames

\* A mode or rename indicator line.
IsIndicator(line) ==
    \/ HasPrefix(line, PfxNewFile)
    \/ HasPrefix(line, PfxDeletedFile)
    \/ HasPrefix(line, PfxRenameFrom)
    \/ HasPrefix(line, PfxRenameTo)

\* The indicator lines of section sec, in order.
Indicators(sec) == SelectSeq(sec, IsIndicator)

\* The lines ls are not empty and all begin with prefix.
AllWithPrefix(ls, prefix) ==
    ls # <<>> /\ \A k \in 1..Len(ls) : HasPrefix(ls[k], prefix)

\* C22: in a section under the marker "diff --git a/P b/Q", when "new file
\* mode" is the only indicator the file is added, its oldName is /dev/null
\* and its newName is Q; when "deleted file mode" is the only indicator the
\* file is deleted, its newName is /dev/null and its oldName is P; without
\* an indicator the file is modified.
C22_ModeLines ==
    ParseDone =>
        \A n \in 1..Len(Files) : \A P \in Names, Q \in Names :
            parser.lines[MarkerAt(n)] = MarkerLine(P, Q) =>
                LET ind == Indicators(Section(n))
                IN /\ AllWithPrefix(ind, PfxNewFile) =>
                          /\ Files[n].status = "added"
                          /\ Files[n].oldName = DevNull
                          /\ Files[n].newName = Q
                   /\ AllWithPrefix(ind, PfxDeletedFile) =>
                          /\ Files[n].status = "deleted"
                          /\ Files[n].newName = DevNull
                          /\ Files[n].oldName = P
                   /\ ind = <<>> => Files[n].status = "modified"

\* An added, a deleted and a modified file, each under the marker
\* "diff --git a/p b/q".
C22_Witness ==
    /\ ParseDone
    /\ Len(Files) = 3
    /\ \A n \in 1..3 : parser.lines[MarkerAt(n)] = MarkerLine(<<"p">>, <<"q">>)
    /\ Files[1].status = "added" /\ Files[1].newName = <<"q">>
    /\ Files[2].status = "deleted" /\ Files[2].oldName = <<"p">>
    /\ Files[3].status = "modified"

\* C23: a section whose indicators are the pair "rename from X",
\* "rename to Y" gives a file with status renamed, oldName X and newName Y,
\* whatever the names on its marker line.
C23_RenamePair ==
    ParseDone =>
        \A n \in 1..Len(Files) : \A X \in Names, Y \in Names :
            Indicators(Section(n)) = <<RenameFromLine(X), RenameToLine(Y)>> =>
                /\ Files[n].status = "renamed"
                /\ Files[n].oldName = X
                /\ Files[n].newName = Y

\* A file renamed from "o n" to "n" under the marker of p and q, with a
\* hunk after the rename lines.
C23_Witness ==
    /\ ParseDone
    /\ Len(Files) = 1
    /\ parser.lines[1] = MarkerLine(<<"p">>, <<"q">>)
    /\ Indicators(Section(1))
           = <<RenameFromLine(<<"o", " ", "n">>), RenameToLine(<<"n">>)>>
    /\ Files[1].status = "renamed"
    /\ Files[1].oldName = <<"o", " ", "n">>
    /\ Files[1].hunks # <<>>

\* The length a range denotes: 1 when it is written without ",len".
LenOrOne(len) == IF len = Absent THEN 1 ELSE len

\* Every hunk header of the inputs with the four numbers it is written from.
HunkTable ==
    {[header |-> HunkHeaderOf(q[1], q[2], q[3], q[4], q[5]),
      oldStart |-> q[1], oldLines |-> LenOrOne(q[2]),
      newStart |-> q[3], newLines |-> LenOrOne(q[4])] : q \in HunkParams}

\* C24: a hunk whose header is "@@ -a[,b] +c[,d] @@" and any trailing text
\* has oldStart a, oldLines b, newStart c and newLines d, where a length
\* that is not written is 1.
C24_HunkHeader ==
    ParseDone =>
        \A n \in 1..Len(Files) : \A h \in 1..Len(Files[n].hunks) :
            \A r \in HunkTable :
                Files[n].hunks[h].header = r.header =>
                    /\ Files[n].hunks[h].oldStart = r.oldStart
                    /\ Files[n].hunks[h].oldLines = r.oldLines
                    /\ Files[n].hunks[h].newStart = r.newStart
                    /\ Files[n].hunks[h].newLines = r.newLines

\* The header "@@ -10 +11,5 @@ -9,9 +9,9 @@": two digits, a length left
\* out, and trailing text that looks like a header.
C24_Witness ==
    /\ ParseDone
    /\ Len(Files) = 1
    /\ Len(Files[1].hunks) = 1
    /\ Files[1].hunks[1].header =
           HunkHeaderOf(10, Absent, 11, 5,
                        <<" ", "-", "9", ",", "9", " ", "+", "9", ",", "9", " ", "@", "@">>)
    /\ Files[1].hunks[1].oldStart = 10
    /\ Files[1].hunks[1].oldLines = 1
    /\ Files[1].hunks[1].newLines = 5

\* The text t is empty or white space only.
AllWhite(t) == \A k \in 1..Len(t) : t[k] \in WhiteSpace

\* C25: Parse of a text that is empty or white space only returns a result
\* with no file, additions 0 and deletions 0.
C25_BlankInput ==
    (ParseDone /\ AllWhite(parser.raw)) =>
        /\ parser.result.files = <<>>
        /\ parser.result.additions = 0
        /\ parser.result.deletions = 0

\* Parse has returned for a text of spaces, tabs and line ends.
C25_Witness ==
    /\ ParseDone
    /\ parser.raw = <<" ", "\n", "\t", "\n">>
    /\ parser.result.files = <<>>

\* Diff or DiffInRepo has returned a result.
Returned == parser.pc = "returned"

\* C26 as stated: every DiffResult produced for a text, by Parse itself or
\* by Diff or DiffInRepo, carries that text as rawDiff.
C26_RawKeptByParse ==
    ((ParseDone /\ parser.fn = "Parse") \/ Returned) =>
        parser.result.rawDiff = parser.raw

\* C26: the DiffResult that Diff or DiffInRepo returns carries as rawDiff
\* the text the command wrote, character for character, also when that text
\* is empty or white space only.
C26_RawKeptByDiff ==
    Returned =>
        /\ parser.ret # <<>>
        /\ parser.ret[1].rawDiff = parser.out

\* A result returned for an output of white space only.
C26_Witness ==
    /\ Returned
    /\ parser.out = <<" ", "\n", "\t">>
    /\ parser.ret[1].rawDiff = <<" ", "\n", "\t">>
    /\ parser.ret[1].files = <<>>

\* C27: Diff and DiffInRepo go on to parse and return a result, and no
\* error, when the command ran and exited with 0 or 1; for every other exit
\* code and for a command that did not run they return an error and no
\* result.
C27_ExitStatus ==
    (parser.fn \in DiffFns /\ parser.pc # "exec") =>
        IF parser.ran /\ parser.code \in {0, 1}
        THEN /\ parser.pc # "failed"
             /\ ~parser.err
             /\ Returned => parser.ret = <<parser.result>>
        ELSE /\ parser.pc = "failed"
             /\ parser.err
             /\ parser.ret = <<>>

\* The command exited with 1 and the result holds the file it wrote.
C27_Witness ==
    /\ Returned
    /\ parser.code = 1
    /\ ~parser.err
    /\ parser.ret[1].files # <<>>
    /\ parser.ret[1].additions > 0

\* C28: gitIgnored says "ignored" only when its repoDir is not empty and
\* the command ran and answered that the path is ignored; a query that
\* fails, for any reason, says "not ignored", so that a path the repository
\* does not ignore is never taken for ignored.
C28_FailOpen ==
    (tree.pc # "gitIgnored" /\ tree.query.outcome # "none") =>
        /\ tree.query.result =>
               /\ tree.query.repoDir # <<>>
               /\ tree.query.outcome = "answer"
               /\ RepoIgnores(tree.query.path)
        /\ tree.query.outcome # "answer" => ~tree.query.result
        /\ tree.query.repoDir = <<>> => ~tree.query.result

\* The walk asked about a directory the repository ignores, the command
\* failed, and the directory is watched.
C28_Witness ==
    /\ tree.pc = "walk"
    /\ tree.query.outcome = "fatal"
    /\ RepoIgnores(tree.query.path)
    /\ ~tree.query.result
    /\ tree.query.path \in tree.watched

\* What the walk of Subscribe registers on the disk: the directories that
\* IgnorePolicy does not skip and that are in no skipped directory.
InitialWalkRegisters(disk) ==
    {q \in disk : \A k \in 1..Len(q) : ~shouldSkip(SubSeq(q, 1, k))}

\* What addRecursive(w, root, dir) registers on the disk when nothing fails:
\* the directories at and below root with no .git component whose
\* components below root are neither excluded, nor hidden, nor ignored by
\* the repository.
WalkCovers(disk, root) ==
    {q \in disk :
        /\ IsUnder(root, q)
        /\ ~isGitPath(q)
        /\ \A k \in (Len(root) + 1)..Len(q) :
               LET sub == SubSeq(q, 1, k)
               IN /\ Base(sub) \notin skipDirs
                  /\ ~HasPrefix(Base(sub), <<".">>)
                  /\ ~RepoIgnores(sub)}

\* C29: when run() has registered a created directory, with every query
\* answered, every registration done and the disk as it was, the watched
\* directories at and below it are those the walk of Subscribe would have
\* registered there.
C29_CreatedLikeInitial ==
    tree.walked # <<>> =>
        {q \in tree.watched : IsUnder(tree.walked[1], q)}
            = {q \in InitialWalkRegisters(tree.disk) : IsUnder(tree.walked[1], q)}

\* C30: the event that started the debounce timer last, and the one whose
\* timer signalled last, are not skipped by IgnorePolicy, when the queries
\* made for them were answered.
C30_SkippedEventDiscarded ==
    /\ \A k \in 1..Len(tree.armedBy) :
           tree.armedBy[k].clean => ~shouldSkip(tree.armedBy[k].name)
    /\ \A k \in 1..Len(tree.signalBy) :
           tree.signalBy[k].clean => ~shouldSkip(tree.signalBy[k].name)

\* C32: when the walk of Subscribe has ended, with every query answered,
\* every registration done and the disk as it was, the watched directories
\* are exactly those that IgnorePolicy does not skip and that are in no
\* skipped directory: nothing in a skipped directory is registered, and
\* everything else is.
C32_WalkPrunes ==
    tree.walked = <<Root>> => tree.watched = InitialWalkRegisters(tree.disk)

\* The walk of Subscribe ended on a disk with a directory in a skipped
\* directory, which is not watched, while the root is.
C32_Witness ==
    /\ tree.walked = <<Root>>
    /\ Root \in tree.watched
    /\ \E q \in tree.disk :
           /\ Len(q) = 3
           /\ shouldSkip(Parent(q))
           /\ ~shouldSkip(<<NmRoot, Base(q)>>)
           /\ q \notin tree.watched

\* q is in a directory that could not be read.
BelowUnread(q) ==
    \E k \in 1..(Len(q) - 1) : SubSeq(q, 1, k) \in tree.unread

\* C33: a walk in which a registration failed or a directory could not be
\* read still ends, and when it ends every directory it was to register is
\* watched, except those whose registration failed and those in a directory
\* that could not be read.
C33_WalkGoesOnStep ==
    (tree.pc = "walk" /\ tree'.pc = "loop" /\ ~tree.foul) =>
        \A q \in WalkCovers(tree.disk, tree.walkRoot) :
            (q \notin tree.addFailed /\ ~BelowUnread(q)) => q \in tree'.watched

C33_WalkGoesOn == [][C33_WalkGoesOnStep]_vars

\* A walk has ended in which the registration of one directory failed, and
\* the directory read after it is watched.
C33_Witness ==
    /\ tree.pc = "loop"
    /\ ~tree.foul
    /\ tree.addFailed = {<<NmRoot, NmLib>>}
    /\ <<NmRoot, NmSrc>> \in tree.watched

\* Rules 1 to 3 of IgnorePolicy, which need no query: a .git component, and
\* below the root a base name that begins with "." or is in the exclusion
\* set.
offlineSkip(path) ==
    \/ isGitPath(path)
    \/ path # Root /\ HasPrefix(Base(path), <<".">>)
    \/ path # Root /\ Base(path) \in skipDirs

\* C34: the last query a walk or run() made for the watched directory was
\* for a path that rules 1 to 3 do not skip.
C34_QueryAfterOffline ==
    (tree.dir # <<>> /\ tree.query.outcome # "none") =>
        ~offlineSkip(tree.query.path)

\* C31: when run() starts the debounce timer for the creation of a
\* directory that is not ignored, the directory and the directories in it
\* that are not ignored are watched, and no later event has been taken from
\* the channel; and every change inside a directory whose creation was
\* reported to run() is followed by a signal.
C31_ArmedAfterWalkStep ==
    (/\ tree'.armedBy # tree.armedBy
     /\ tree'.armedBy[1].clean
     /\ tree'.armedBy[1].name \in InitialWalkRegisters(tree'.disk)) =>
        /\ WalkCovers(tree'.disk, tree'.armedBy[1].name) \subseteq tree'.watched
        /\ tree'.event.name = tree'.armedBy[1].name

C31_NoChangeMissed ==
    /\ [][C31_ArmedAfterWalkStep]_vars
    /\ (tree.owed # {}) ~> (tree.owed = {})

\* A file was made in a created directory before run() had registered the
\* directory, so that no event told of it, and a signal has followed.
C31_Witness ==
    /\ tree.nfault = 0
    /\ <<NmRoot, NmLib, NmFile>> \in tree.paid
    /\ <<NmRoot, NmLib>> \in tree.watched
    /\ tree.events = <<>>
    /\ \A k \in 1..Len(tree.signalBy) : tree.signalBy[k].name = <<NmRoot, NmLib>>
    /\ tree.signalBy # <<>>

\* Caller p is in the walk of Subscribe or in a query the walk made.
LkWalks(p) == lk.pc[p] \in {"S_walk", "S_query"}

\* Caller p waits in a Lock().
LkWaits(p) == lk.pc[p] \in {"S_wantM", "U_wantM", "S_wantE", "U_wantE"}

\* Caller p holds a mutex.
LkHolds(p) == lk.mu = Caller(p) \/ \E e \in EntryIds : lk.emu[e] = Caller(p)

\* C35: no caller holds Manager.mu while it walks the directory or waits
\* for an ignore query, and while one caller walks a directory no caller of
\* Subscribe or of a release function for another directory waits for
\* Manager.mu.
C35_NoLockAcrossWalk ==
    \A p \in Callers :
        LkWalks(p) =>
            /\ lk.mu # Caller(p)
            /\ \A q \in Callers :
                   lk.dir[q] # lk.dir[p] => lk.pc[q] \notin {"S_wantM", "U_wantM"}

\* C38: no goroutine waits for a mutex while it holds one, so that no
\* cycle of goroutines waiting for each other can form, and every goroutine
\* that waits in a Lock() gets the mutex and every goroutine that holds one
\* unlocks it.
C38_LocksLive ==
    /\ [](\A p \in Callers : ~(LkWaits(p) /\ LkHolds(p)))
    /\ \A p \in Callers : LkWaits(p) ~> LkHolds(p)
    /\ \A p \in Callers : LkHolds(p) ~> ~LkHolds(p)
    /\ \A d \in Dirs : (lk.rmWant[d] > 0) ~> (lk.mu = Remover(d))
    /\ \A d \in Dirs : (lk.mu = Remover(d)) ~> (lk.mu # Remover(d))
    /\ \A e \in EntryIds : (lk.cbWant[e] > 0) ~> (lk.emu[e] = Callback(e))
    /\ \A e \in EntryIds : (lk.emu[e] = Callback(e)) ~> (lk.emu[e] # Callback(e))

\* One caller holds Manager.mu in its walk while another caller waits for
\* it in Subscribe.
C38_Witness ==
    \E p \in Callers, q \in Callers :
        /\ LkWalks(p)
        /\ lk.mu = Caller(p)
        /\ lk.pc[q] = "S_wantM"

\* C36: a section under the marker "diff --git a/P b/Q" that has no mode or
\* rename indicator gives a file with oldName P and newName Q, for every
\* pair of paths.
C36_NamesFromMarker ==
    ParseDone =>
        \A n \in 1..Len(Files) : \A P \in MarkerNames, Q \in MarkerNames :
            (/\ parser.lines[MarkerAt(n)] = MarkerLine(P, Q)
             /\ Indicators(Section(n)) = <<>>) =>
                /\ Files[n].oldName = P
                /\ Files[n].newName = Q

\* C39: each file's additions is the number of lines under the hunk headers
\* of its section whose first character is +, and its deletions the number
\* of those whose first character is -, whatever the rest of the line.
C39_CountsEveryMarkedLine ==
    ParseDone =>
        \A n \in 1..Len(Files) :
            /\ Files[n].additions = Cardinality(BodyLinesOfType(Section(n), "add"))
            /\ Files[n].deletions = Cardinality(BodyLinesOfType(Section(n), "del"))

\* C40: the reader goroutine never finds readErr full when it sends, and
\* once the handler has returned a reader that was started returns too.
C40_ReaderTerminates ==
    /\ [](\A c \in Conns : ws[c].rpc = "sending" => ws[c].readErr < ReadErrCap)
    /\ \A c \in Conns :
           (Terminated(c) /\ ws[c].rpc # "none") ~> (ws[c].rpc = "exited")

\* The handler returned because the context was cancelled, and the reader
\* has left its error in readErr, which nobody receives, and returned.
C40_Witness ==
    \E c \in Conns :
        /\ Terminated(c)
        /\ ws[c].cause = "ctx"
        /\ ws[c].rpc = "exited"
        /\ ws[c].readErr = 1

\* C37: a release function affects only its own subscription: the step in
\* which it returns removes no id from any subscriber set except its own id
\* from the entry it was registered in, and changes the grace timer of no
\* other entry.
C37_ReleaseOwnOnlyStep ==
    \A p \in Callers :
        Releases(p) =>
            \A e \in EntryIds :
                /\ subs[e] \ subs'[e] \subseteq
                       (IF e = reg[p] THEN {cid[p]} ELSE {})
                /\ e # reg[p] => stopTimer'[e] = stopTimer[e]

C37_ReleaseOwnOnly == [][C37_ReleaseOwnOnlyStep]_vars

TypeOK ==
    /\ entries \in [Dirs -> EntryIds \cup {NoEntry}]
    /\ nAlloc \in 0..MaxEntries
    /\ edir \in [EntryIds -> Dirs \cup {NoDir}]
    /\ subs \in [EntryIds -> SUBSET SubIds]
    /\ nextID \in [EntryIds -> 0..MaxSubs]
    /\ stopTimer \in [EntryIds -> {"nil", "armed", "fired"}]
    /\ removePending \in [Dirs -> Nat]
    /\ toClose \subseteq EntryIds
    /\ watch \in [EntryIds -> {"none", "open", "closed"}]
    /\ timers \in [EntryIds -> Nat]
    /\ burst \in [EntryIds -> 0..MaxBurst]
    /\ pc \in [Callers -> {"idle", "Subscribe_entry", "subscribed", "unsubscribe_entry"}]
    /\ cdir \in [Callers -> Dirs \cup {NoDir}]
    /\ centry \in [Callers -> EntryIds \cup {NoEntry}]
    /\ cid \in [Callers -> SubIds \cup {NoSub}]
    /\ reg \in [Callers -> EntryIds \cup {NoEntry}]
====
